---- MODULE Spec2Model ----
(***************************************************************************)
(* E-Chat mail transport (src/src/email_manager.py): the send pipeline     *)
(* (send queue, send worker, SMTP connection) and the inbox watcher (poll  *)
(* worker, IDLE worker, shared IMAP connection).                           *)
(*                                                                         *)
(* SendSpec is the send pipeline, Spec the inbox watcher.  The two share   *)
(* no state in the code apart from the connection lock.                    *)
(***************************************************************************)
EXTENDS Integers, Sequences, FiniteSets, TLC

\* ------------------------------------------------------------------ bounds
\* Number of envelopes the UI hands to send_message_async in one run.
MaxMsgs == 2
\* Largest number of messages that arrive in the mailbox in one run.
MaxMail == 2
\* Number of messages that arrive while both workers are observed.
MaxWatchMail == 1
\* Largest number of folders in a folder listing.
MaxFolders == 2
\* Largest number of abandoned worker threads of one role that are still alive.
MaxAbandoned == 1

\* -------------------------------------------------------- program constants
\* send_message_sync: max_retries = 2 (attempt, then two more).
max_retries == 2
\* _send_worker: "if retry_count < 3" re-enqueue.
MaxQueueRetries == 3
\* config_manager defaults: 'max_message_length': '5000'
max_message_length == 5000
\* __init__: self.polling_interval = 30
DefaultInterval == 30
\* start_polling, auto mode with IDLE: self.polling_interval = 900
BackupInterval == 900
\* start_polling, auto mode without IDLE: self.polling_interval = 30
FastInterval == 30

VARIABLES
    \* ---- send pipeline
    send_queue,       \* self.send_queue: sequence of [id, retry] (retry = message['_retry_count'])
    send_running,     \* self.send_running
    sendPc,           \* position of the send worker thread
    message,          \* the worker's local "message" (NoTask when it holds none)
    retry_count,      \* send_message_sync's local retry_count
    success,          \* value returned by send_message_sync to the worker
    smtp,             \* self.smtp_connection
    enqueued,         \* number of envelopes enqueued so far (ids are 1..enqueued, in enqueue order)
    \* ---- send pipeline, observation only
    firstDeq,         \* ids in the order of their first dequeue by the worker
    txLog,            \* ids in the order of their successful transmissions
    attempts,         \* per id: number of queue-level attempts (calls of send_message_sync)
    persisted,        \* per id: number of database add_message(is_sent=True) calls
    leftWith,         \* per id: retry counter with which it left the pipeline untransmitted, -1 otherwise
    errorCb,          \* number of error_callback('send', ...) invocations
    asyncCall,        \* the last send_message_async: content length, recipient validity, value returned
    \* ---- inbox watcher
    polling_running,  \* self.polling_running
    idle_running,     \* self.idle_running
    idle_enabled,     \* app_config 'idle_enabled', as start_polling reads it into self.idle_enabled
    idle_supported,   \* self.idle_supported: "none" (never tested), "true", "false"
    polling_mode,     \* app_config 'polling_mode': "auto" or "manual"
    polling_interval, \* self.polling_interval, in seconds
    inboxCap,         \* number of messages the mailbox receives in this run
    mainPc,           \* the UI thread: "ready", or "stopping" between stop_polling's join and stop_idle
    pc,               \* position of the poll worker and of the IDLE worker
    ids,              \* per worker: message ids of its SEARCH still to fetch
    imap,             \* self.imap_connection
    connecting,       \* the worker inside connect_imap (holder of connection_lock), or "none"
    sess,             \* server-side state of the session of self.imap_connection
    orphan,           \* session of a replaced connection on whose socket the IDLE worker is still blocked
    valid,            \* per worker: it saw is_alive() or connect_imap() succeed on the current object
    mail,             \* per mailbox message: "absent", "unseen"/"seen" (E-Chat), "foreign"/"foreign_seen"
    notif,            \* a mailbox-change notification waits on the socket the IDLE worker reads
    \* ---- inbox watcher, observation only
    delivered,        \* per mailbox message: number of message_received_callback invocations
    usedSinceListen,  \* last_used was set since the long-poll began
    timeoutSess,      \* the last long-poll ended by timeout with DONE, and the session is intact since
    reconnAfterTimeout, \* the IDLE worker reconnected such a session
    stopInListen,     \* stop_idle ran while the IDLE worker was in the long-poll
    stopDoneOk,       \* ... and wrote DONE to the connection the worker idled on
    pollOnIdling,     \* the poll worker touched the connection the IDLE worker was idling on
    cmdUnverified,    \* a worker issued select/search/fetch/IDLE on an object it had not verified
    notifPhase,       \* handling of the last notification: "none", "notified", "done", "checked", "skipped"
    pollFailed,       \* the poll worker's last check_new_messages gave up at a step, no cycle begun since
    fetchFailed,      \* per worker: a _fetch_email of its current fetch loop failed
    \* ---- one EmailConnection instance and its callers
    emailConn,             \* the instance: connection (handle set), is_connected, last_used
    call,             \* the last method call on it: op, probe, result, before (the instance before it)
    stale,            \* is_alive saw the idle timeout or a raising probe, no connect() succeeded since
    \* ---- message codec
    codec,            \* the last codec call: op, subject, body, parsed, persisted, delivered, built
    folder,           \* the last folder-name call: op, arg, custom, encoded, result
    thread,           \* per worker thread: its position, running flag, stop request, pending reply
    manager           \* the stored email configuration, both connections and their lock, the last update_config call

sendVars == <<send_queue, send_running, sendPc, message, retry_count, success, smtp,
              enqueued, firstDeq, txLog, attempts, persisted, leftWith, errorCb, asyncCall>>


runVars == <<polling_running, idle_running, mainPc>>
cfgVars == <<idle_enabled, idle_supported, polling_mode, inboxCap>>
connVars == <<imap, connecting, sess, orphan, valid>>
boxVars == <<mail, delivered, notif>>
c8Vars == <<usedSinceListen, timeoutSess, reconnAfterTimeout>>
c9Vars == <<stopInListen, stopDoneOk>>
pollVars == <<polling_interval, pollFailed, fetchFailed>>
watchVars == <<runVars, cfgVars, connVars, boxVars, c8Vars, c9Vars, pollVars, pc, ids,
               pollOnIdling, cmdUnverified, notifPhase>>

unitVars == <<emailConn, call, stale, codec, folder, thread, manager>>

vars == <<sendVars, watchVars, unitVars>>

Ids == 1..MaxMsgs
NoTask == [id |-> 0, retry |-> 0]

\* ------------------------------------------------------------ connections
\* An EmailConnection object.  obj: the manager holds an object; connection:
\* the handle attribute is set; is_connected; last_used is "none", "fresh"
\* (within the last 10 minutes) or "old" (more than 10 minutes ago).
NoConnection == [obj |-> FALSE, connection |-> FALSE, is_connected |-> FALSE, last_used |-> "none"]

ConnectOutcomes == {"ok", "ctor_fail", "login_fail"}

\* SMTPConnection.connect / IMAPConnection.connect on a fresh object c.
\* ctor_fail: the SMTP_SSL/IMAP4_SSL constructor raised (handle stays None);
\* login_fail: the handle was created and login raised.
ConnectResult(c, outcome) ==
    [c EXCEPT !.connection = (outcome # "ctor_fail"),
              !.is_connected = (outcome = "ok"),
              !.last_used = IF outcome = "ok" THEN "fresh" ELSE "none"]

\* A newly constructed SMTPConnection / IMAPConnection (EmailConnection.__init__).
FreshObject == [obj |-> TRUE, connection |-> FALSE, is_connected |-> FALSE, last_used |-> "none"]

\* connect_smtp: the old object is disconnected and replaced, the new one connects.
ConnectNew(outcome) == ConnectResult(FreshObject, outcome)

\* EmailConnection.is_alive: the value returned, noopOk being the outcome of the probe.
IsAlive(c, noopOk) ==
    IF ~c.connection \/ ~c.is_connected THEN FALSE
    ELSE IF c.last_used = "old" THEN FALSE
    ELSE noopOk

\* EmailConnection.is_alive: the object afterwards (a failed probe clears is_connected).
AfterIsAlive(c, noopOk) ==
    IF c.connection /\ c.is_connected /\ c.last_used # "old" /\ ~noopOk
    THEN [c EXCEPT !.is_connected = FALSE]
    ELSE c

\* EmailConnection.update_last_used
UpdateLastUsed(c) == [c EXCEPT !.last_used = "fresh"]

\* A reset that drops the handle and leaves the connected mark standing.
ResetHandleOnly(c) == [c EXCEPT !.connection = FALSE]

\* send_message_sync's except branch: reset of the connection state.
ResetAfterSendFailure(c) ==
    IF c.obj THEN [c EXCEPT !.is_connected = FALSE, !.connection = FALSE] ELSE c

\* ---------------------------------------------------------------- strings
\* Strings are sequences of characters.

\* Leading blanks removed: the value email.message_from_bytes gives for a
\* header line "Subject: ...", and str.lstrip.
RECURSIVE LStrip(_)
LStrip(s) == IF s # <<>> /\ Head(s) = " " THEN LStrip(Tail(s)) ELSE s

RECURSIVE RStrip(_)
RStrip(s) == IF s # <<>> /\ s[Len(s)] = " " THEN RStrip(SubSeq(s, 1, Len(s) - 1)) ELSE s

\* str.strip
Strip(s) == RStrip(LStrip(s))

\* The character classes of validate_email's pattern.
Letters ==
    {"a", "b", "c", "d", "e", "f", "g", "h", "i", "j", "k", "l", "m",
     "n", "o", "p", "q", "r", "s", "t", "u", "v", "w", "x", "y", "z",
     "A", "B", "C", "D", "E", "F", "G", "H", "I", "J", "K", "L", "M",
     "N", "O", "P", "Q", "R", "S", "T", "U", "V", "W", "X", "Y", "Z"}
Digits == {"0", "1", "2", "3", "4", "5", "6", "7", "8", "9"}

\* DataValidator.validate_email: the stripped string matches
\* ^[a-zA-Z0-9._%+-]+@[a-zA-Z0-9.-]+\.[a-zA-Z]{2,}$ : one "@" after a
\* non-empty local part, and after it a non-empty domain, a "." and at least
\* two letters up to the end.
ValidateEmail(email) ==
    LET s == Strip(email)
    IN  \E i \in 1..Len(s), k \in 1..Len(s) :
            /\ s[i] = "@"
            /\ i > 1
            /\ \A j \in 1..(i - 1) : s[j] \in Letters \cup Digits \cup {".", "_", "%", "+", "-"}
            /\ s[k] = "."
            /\ k > i + 1
            /\ \A j \in (i + 1)..(k - 1) : s[j] \in Letters \cup Digits \cup {".", "-"}
            /\ Len(s) - k >= 2
            /\ \A j \in (k + 1)..Len(s) : s[j] \in Letters

\* ------------------------------------------------------------- send queue
\* queue.Queue.put: append at the tail.
QueuePutFront(q, task) == <<task>> \o q
QueuePut(q, task) == Append(q, task)

\* send_message_sync: the number of database_manager.add_message(is_sent=True)
\* calls one pass of the retry loop makes (the call follows send_message).
PersistCallsAlways(sendOk) == 1
PersistCalls(sendOk) == IF sendOk THEN 1 ELSE 0

\* After the retry loop of send_message_sync the name e is unbound (Python
\* deletes the target of "except ... as e" at the end of the clause), so
\* str(e) raises UnboundLocalError before _notify_error is called.
ExceptionNameBound == FALSE

SendInit ==
    /\ send_queue = <<>>
    /\ send_running = FALSE
    /\ sendPc = "stopped"
    /\ message = NoTask
    /\ retry_count = 0
    /\ success = FALSE
    /\ smtp = NoConnection
    /\ enqueued = 0
    /\ firstDeq = <<>>
    /\ txLog = <<>>
    /\ attempts = [i \in Ids |-> 0]
    /\ persisted = [i \in Ids |-> 0]
    /\ leftWith = [i \in Ids |-> -1]
    /\ errorCb = 0
    /\ asyncCall = [len |-> 0, senderOk |-> TRUE, recipientOk |-> TRUE, built |-> FALSE,
                    returned |-> FALSE]

\* Content lengths the UI hands over: short, at the limit, over it.
ContentLengths == {100, max_message_length, max_message_length + 1}

\* MessageParser.MESSAGE_TYPES
MESSAGE_TYPES == {"text", "file", "image", "status", "system"}

\* The configured user name (the sender) and the recipients the UI passes.
Senders ==
    {<<>>,
     <<"m", "e", "@", "x", ".", "i", "o">>,
     <<"m", "e", "@", "x">>}
Recipients ==
    {<<"a", "@", "b", ".", "c", "c">>,
     <<" ", "a", ".", "b", "+", "1", "@", "b", "-", "c", ".", "d", ".", "c", "c", " ">>,
     <<>>,
     <<"a", "@", "b">>,
     <<"a", "b", ".", "c", "c">>,
     <<"@", "b", ".", "c", "c">>,
     <<"a", "@", ".", "c", "c">>,
     <<"a", "@", "b", ".", "c">>,
     <<"a", "@", "b", ".", "c", "1">>,
     <<"a", "@", "@", "b", ".", "c", "c">>,
     <<"a", " ", "b", "@", "b", ".", "c", "c">>}

\* _create_base_message: ValueError for an invalid sender address, an invalid
\* recipient address or a message type outside MESSAGE_TYPES, raised before
\* the message dict is built; the content is not looked at.
CreateBaseMessage(senderOk, recipientOk, message_type) ==
    IF ~senderOk THEN "ValueError"
    ELSE IF ~recipientOk THEN "ValueError"
    ELSE IF message_type \notin MESSAGE_TYPES THEN "ValueError"
    ELSE "message"

\* create_text_message -> _create_base_message with type "text".
CreateTextMessageUnchecked(senderOk, recipientOk, content_len) == "message"
CreateTextMessage(senderOk, recipientOk, content_len) ==
    CreateBaseMessage(senderOk, recipientOk, "text")

\* send_message_async (message_type "text"): False without a configured
\* sender; create_text_message; enqueue, then start_send_thread if the worker
\* is not running; a ValueError is caught and False returned.  A worker told
\* to stop has ended (stop_send_thread's join) before the next message is sent.
SendMessageAsync ==
    /\ enqueued < MaxMsgs
    /\ send_running \/ sendPc = "stopped"
    /\ \E content_len \in ContentLengths, sender \in Senders,
          recipientOk \in {ValidateEmail(recipient) : recipient \in Recipients} :
        LET senderOk == ValidateEmail(sender)
            built == sender # <<>>
                     /\ CreateTextMessage(senderOk, recipientOk, content_len) = "message"
        IN  IF built
            THEN /\ enqueued' = enqueued + 1
                 /\ send_queue' = QueuePut(send_queue, [id |-> enqueued + 1, retry |-> 0])
                 /\ IF ~send_running
                    THEN send_running' = TRUE /\ sendPc' = "loop"
                    ELSE UNCHANGED <<send_running, sendPc>>
                 /\ asyncCall' = [len |-> content_len, senderOk |-> senderOk,
                                  recipientOk |-> recipientOk, built |-> TRUE,
                                  returned |-> TRUE]
            ELSE \* no sender, or ValueError caught: return False
                 /\ asyncCall' = [len |-> content_len, senderOk |-> senderOk,
                                  recipientOk |-> recipientOk, built |-> FALSE,
                                  returned |-> FALSE]
                 /\ UNCHANGED <<enqueued, send_queue, send_running, sendPc>>
    /\ UNCHANGED <<message, retry_count, success, smtp, firstDeq, txLog, attempts,
                   persisted, leftWith, errorCb>>
    /\ UNCHANGED <<watchVars, unitVars>>

\* stop_send_thread: clear the flag (the join waits for the worker).
StopSendThread ==
    /\ send_running
    /\ send_running' = FALSE
    /\ UNCHANGED <<send_queue, sendPc, message, retry_count, success, smtp, enqueued,
                   firstDeq, txLog, attempts, persisted, leftWith, errorCb, asyncCall>>
    /\ UNCHANGED <<watchVars, unitVars>>

\* _send_worker: "while self.send_running" is false, the thread ends.
SendWorkerExit ==
    /\ sendPc = "loop"
    /\ ~send_running
    /\ sendPc' = "stopped"
    /\ UNCHANGED <<send_queue, send_running, message, retry_count, success, smtp, enqueued,
                   firstDeq, txLog, attempts, persisted, leftWith, errorCb, asyncCall>>
    /\ UNCHANGED <<watchVars, unitVars>>

\* _send_worker: send_queue.get returns the head; send_message_sync is entered.
SendWorkerGet ==
    /\ sendPc = "loop"
    /\ send_running
    /\ send_queue # <<>>
    /\ message' = Head(send_queue)
    /\ send_queue' = Tail(send_queue)
    /\ retry_count' = 0
    /\ sendPc' = "sync"
    /\ attempts' = [attempts EXCEPT ![Head(send_queue).id] = @ + 1]
    /\ firstDeq' = IF \E k \in 1..Len(firstDeq) : firstDeq[k] = Head(send_queue).id
                   THEN firstDeq ELSE Append(firstDeq, Head(send_queue).id)
    /\ UNCHANGED <<send_running, success, smtp, enqueued, txLog, persisted, leftWith, errorCb, asyncCall>>
    /\ UNCHANGED <<watchVars, unitVars>>

\* send_message_sync: one pass of the retry loop.
\*   noopOk  outcome of the liveness probe,  outcome  of connect_smtp,
\*   sendOk  whether create_email_message/send_message completes without raising.
SyncAttempt ==
    /\ sendPc = "sync"
    /\ \E noopOk \in BOOLEAN, outcome \in ConnectOutcomes, sendOk \in BOOLEAN :
         LET alive == smtp.obj /\ IsAlive(smtp, noopOk)
             probed == AfterIsAlive(smtp, noopOk)
             conn == IF alive THEN probed ELSE ConnectNew(outcome)
         IN  IF ~alive /\ outcome # "ok"
             THEN \* connect_smtp failed: return False
                  /\ smtp' = conn
                  /\ success' = FALSE
                  /\ sendPc' = "result"
                  /\ UNCHANGED <<message, retry_count, txLog, persisted, leftWith, errorCb>>
             ELSE IF sendOk
             THEN \* sent: update_last_used, stats, add_message, return True
                  /\ smtp' = UpdateLastUsed(conn)
                  /\ txLog' = Append(txLog, message.id)
                  /\ persisted' = [persisted EXCEPT ![message.id] = @ + PersistCalls(sendOk)]
                  /\ success' = TRUE
                  /\ sendPc' = "result"
                  /\ UNCHANGED <<message, retry_count, leftWith, errorCb>>
             ELSE \* the attempt raised: reset the connection, count the retry
                  /\ smtp' = ResetAfterSendFailure(conn)
                  /\ retry_count' = retry_count + 1
                  /\ IF retry_count + 1 <= max_retries
                     THEN UNCHANGED <<sendPc, message, leftWith, errorCb, success>>
                     ELSE IF ExceptionNameBound
                     THEN \* _notify_error('send', str(e)); return False
                          /\ errorCb' = errorCb + 1
                          /\ success' = FALSE
                          /\ sendPc' = "result"
                          /\ UNCHANGED <<message, leftWith>>
                     ELSE \* str(e) raises; _send_worker's "except Exception" swallows
                          \* it: the message is neither re-enqueued nor reported
                          /\ leftWith' = [leftWith EXCEPT ![message.id] = message.retry]
                          /\ message' = NoTask
                          /\ sendPc' = "loop"
                          /\ UNCHANGED <<errorCb, success>>
                  /\ persisted' = [persisted EXCEPT ![message.id] = @ + PersistCalls(sendOk)]
                  /\ UNCHANGED txLog
    /\ UNCHANGED <<send_queue, send_running, enqueued, firstDeq, attempts, asyncCall>>
    /\ UNCHANGED <<watchVars, unitVars>>

\* _send_worker: "if retry_count < 3", retry_count being the failed
\* message's '_retry_count' (0 when absent).
MayRetryInclusive(retry) == retry <= MaxQueueRetries
MayRetry(retry) == retry < MaxQueueRetries

\* _send_worker after send_message_sync returned: re-enqueue a failed message
\* whose counter is below the maximum, then task_done and back to the loop.
SendWorkerResult ==
    /\ sendPc = "result"
    /\ IF ~success /\ MayRetry(message.retry)
       THEN /\ send_queue' = QueuePut(send_queue, [message EXCEPT !.retry = @ + 1])
            /\ UNCHANGED leftWith
       ELSE IF ~success
       THEN /\ leftWith' = [leftWith EXCEPT ![message.id] = message.retry]
            /\ UNCHANGED send_queue
       ELSE UNCHANGED <<send_queue, leftWith>>
    /\ message' = NoTask
    /\ sendPc' = "loop"
    /\ UNCHANGED <<send_running, retry_count, success, smtp, enqueued, firstDeq, txLog,
                   attempts, persisted, errorCb, asyncCall>>
    /\ UNCHANGED <<watchVars, unitVars>>

\* More than 10 minutes pass since the SMTP connection was last used.
SmtpIdleTimePasses ==
    /\ smtp.last_used = "fresh"
    /\ smtp' = [smtp EXCEPT !.last_used = "old"]
    /\ UNCHANGED <<send_queue, send_running, sendPc, message, retry_count, success, enqueued,
                   firstDeq, txLog, attempts, persisted, leftWith, errorCb, asyncCall>>
    /\ UNCHANGED <<watchVars, unitVars>>

SendNext ==
    \/ SendMessageAsync
    \/ StopSendThread
    \/ SendWorkerExit
    \/ SendWorkerGet
    \/ SyncAttempt
    \/ SendWorkerResult
    \/ SmtpIdleTimePasses

\* ============================================================ inbox watcher

Workers == {"poll", "idle"}
Mail == 1..MaxMail

\* is_alive issues the no-op probe only past its two early returns.
ProbeIssued(c) == c.obj /\ c.connection /\ c.is_connected /\ c.last_used # "old"

\* The IDLE worker is blocked in sock.recv of the long-poll.
Listening == pc["idle"] = "listen"

\* The session on whose socket the IDLE worker is blocked is in the IDLE state.
ListenSessionIdle == IF orphan # "none" THEN orphan = "idle" ELSE sess = "idle"

\* self.imap_connection.connection can be dereferenced.
HandlePresent == imap.obj /\ imap.connection

\* Worker w, not the IDLE worker, touches the connection the IDLE worker idles on.
TouchesIdling(w) == w # "idle" /\ Listening /\ orphan = "none" /\ sess = "idle"

\* An imaplib command (noop, list, select, search, fetch) can complete: there
\* is a handle and the session is logged in and not inside IDLE.
CommandPossible == HandlePresent /\ sess \in {"auth", "selected"}

\* The session after a line other than DONE was written to it: a session in
\* IDLE either ends the IDLE on the stray line or stays in it.
AfterStrayCommand == IF sess = "idle" /\ HandlePresent THEN {"idle", "selected"} ELSE {sess}

\* Where check_new_messages returns to.
RetStopped(w) == "stopped"
Ret(w) == IF w = "poll" THEN "loop" ELSE "i_loop"

\* check_new_messages returned to the IDLE worker: the notification that
\* started it, DONE having reached the idling session, is handled.
PhaseAfterCheck(w) == IF w = "idle" /\ notifPhase = "done" THEN "checked" ELSE notifPhase

\* The IDLE command is issued: "skipped" records that a notification was not
\* followed by DONE and check_new_messages before it.
PhaseAtIdle == IF notifPhase \in {"none", "checked"} THEN "none" ELSE "skipped"

\* check_new_messages of worker w returns [] early: the poll worker's cycle
\* gave up.
CycleGaveUp(w, inCheck, failed) == pollFailed \/ (inCheck /\ w = "poll" /\ failed)

\* Message ids as SEARCH UNSEEN returns them.
Unseen == {m \in Mail : mail[m] \in {"unseen", "foreign"}}

\* The lowest id of a non-empty set (the fetch loop goes through the ids in order).
MinOf(S) == CHOOSE m \in S : \A n \in S : m <= n

WatchInit ==
    /\ polling_running = FALSE
    /\ idle_running = FALSE
    /\ idle_enabled \in BOOLEAN
    /\ idle_supported = "none"
    /\ polling_interval = DefaultInterval
    /\ pollFailed = FALSE
    /\ fetchFailed = [w \in Workers |-> FALSE]
    /\ mainPc = "ready"
    /\ pc = [w \in Workers |-> "stopped"]
    /\ ids = [w \in Workers |-> {}]
    /\ imap = NoConnection
    /\ connecting = "none"
    /\ sess = "none"
    /\ orphan = "none"
    /\ valid = [w \in Workers |-> FALSE]
    /\ mail = [m \in Mail |-> "absent"]
    /\ delivered = [m \in Mail |-> 0]
    /\ notif = FALSE
    /\ usedSinceListen = FALSE
    /\ pollOnIdling = FALSE
    /\ cmdUnverified = FALSE
    /\ timeoutSess = FALSE
    /\ reconnAfterTimeout = FALSE
    /\ stopInListen = FALSE
    /\ stopDoneOk = FALSE
    /\ notifPhase = "none"

\* The session a replaced connection leaves behind: the IDLE worker stays
\* blocked on its socket; disconnect() wrote CLOSE to it, which ends a
\* server-side IDLE or not.
OrphanAfterReplace ==
    IF Listening /\ orphan = "none"
    THEN (IF sess = "idle" THEN {"idle", "ended"} ELSE {"ended"})
    ELSE {orphan}

\* test_idle_support (the settings window's test thread), run while no IDLE
\* worker exists: connection check, connect_imap when it fails, CAPABILITY,
\* then _test_idle_command (LIST, SELECT, IDLE, DONE); the result is stored
\* in idle_supported.
TestIdleSupport ==
    /\ mainPc = "ready"
    /\ connecting = "none"
    /\ pc["idle"] = "stopped"
    /\ \E noopOk \in BOOLEAN, supported \in BOOLEAN :
        LET probeOk == noopOk /\ sess \in {"auth", "selected"}
            alive == imap.obj /\ IsAlive(imap, probeOk)
        IN  IF alive
            THEN /\ idle_supported' = IF supported THEN "true" ELSE "false"
                 /\ sess' = IF supported THEN "selected" ELSE sess
                 /\ UNCHANGED <<imap, valid, usedSinceListen, timeoutSess>>
            ELSE \E outcome \in ConnectOutcomes :
                 /\ idle_supported' = IF outcome = "ok" /\ supported THEN "true" ELSE "false"
                 /\ imap' = ConnectNew(outcome)
                 /\ sess' = IF outcome # "ok" THEN "none"
                            ELSE IF supported THEN "selected" ELSE "auth"
                 /\ valid' = [x \in Workers |-> FALSE]
                 /\ usedSinceListen' = (usedSinceListen \/ outcome = "ok")
                 /\ timeoutSess' = FALSE
    /\ UNCHANGED <<runVars, idle_enabled, polling_mode, inboxCap, connecting, orphan, boxVars,
                   reconnAfterTimeout, c9Vars, pollVars, pc, ids, pollOnIdling, cmdUnverified,
                   notifPhase>>
    /\ UNCHANGED <<sendVars, unitVars>>

\* The 'polling_interval' values app_config may hold (the settings slider).
ManualIntervals == {30, 60}

\* start_polling without an interval argument: the interval it stores.
StartIntervalFast(mode, enabled, supported, configured) == FastInterval
StartInterval(mode, enabled, supported, configured) ==
    IF mode = "auto"
    THEN (IF enabled /\ supported = "true" THEN BackupInterval ELSE FastInterval)
    ELSE configured

\* start_polling, then start_idle when IDLE is enabled and supported; the
\* workers of an earlier run have ended.
StartPolling ==
    /\ mainPc = "ready"
    /\ ~polling_running
    /\ \A w \in Workers : pc[w] = "stopped"
    /\ \E configured \in ManualIntervals :
        polling_interval' = StartInterval(polling_mode, idle_enabled, idle_supported, configured)
    /\ polling_running' = TRUE
    /\ IF idle_enabled /\ idle_supported = "true" /\ ~idle_running
       THEN /\ idle_running' = TRUE
            /\ pc' = [pc EXCEPT !["poll"] = "loop", !["idle"] = "i_loop"]
       ELSE /\ pc' = [pc EXCEPT !["poll"] = "loop"]
            /\ UNCHANGED idle_running
    /\ stopInListen' = FALSE
    /\ stopDoneOk' = FALSE
    /\ notifPhase' = IF notifPhase = "skipped" THEN notifPhase ELSE "none"
    /\ UNCHANGED <<mainPc, cfgVars, connVars, boxVars, c8Vars, pollFailed, fetchFailed, ids,
                   pollOnIdling, cmdUnverified>>
    /\ UNCHANGED <<sendVars, unitVars>>

\* stop_polling: clear the flag; the join of the poll thread is bounded (10 s),
\* so stop_idle may follow while the poll worker still runs.
StopPolling ==
    /\ mainPc = "ready"
    /\ polling_running
    /\ polling_running' = FALSE
    /\ mainPc' = "stopping"
    /\ UNCHANGED <<idle_running, cfgVars, connVars, boxVars, c8Vars, c9Vars, pc, ids,
                   pollOnIdling, cmdUnverified, notifPhase>>
    /\ UNCHANGED pollVars
    /\ UNCHANGED <<sendVars, unitVars>>

\* stop_idle: clear the flag and, the thread being alive, write DONE to the
\* socket of the current self.imap_connection.
StopIdle ==
    /\ mainPc = "stopping"
    /\ mainPc' = "ready"
    /\ IF ~idle_running
       THEN UNCHANGED <<idle_running, sess, c9Vars>>
       ELSE /\ idle_running' = FALSE
            /\ stopInListen' = (Listening /\ ListenSessionIdle)
            /\ stopDoneOk' = (Listening /\ ListenSessionIdle /\ orphan = "none" /\ HandlePresent)
            /\ sess' = IF pc["idle"] # "stopped" /\ HandlePresent /\ sess = "idle"
                       THEN "selected" ELSE sess
    /\ UNCHANGED <<polling_running, cfgVars, imap, connecting, orphan, valid, boxVars, c8Vars,
                   pc, ids, pollOnIdling, cmdUnverified, notifPhase>>
    /\ UNCHANGED pollVars
    /\ UNCHANGED <<sendVars, unitVars>>

\* ---- steps shared by check_new_messages and the IDLE worker's own loop

\* "if not self.imap_connection or not self.imap_connection.is_alive()":
\* on to okPc when alive, to connPc (connect_imap) when not.
AliveCheck(w, okPc, connPc) ==
    \E noopOk \in BOOLEAN :
        LET probeOk == noopOk /\ sess \in {"auth", "selected"}
            alive == imap.obj /\ IsAlive(imap, probeOk)
        IN  /\ imap' = AfterIsAlive(imap, probeOk)
            /\ sess' \in IF ProbeIssued(imap) THEN AfterStrayCommand ELSE {sess}
            /\ pollOnIdling' = (pollOnIdling \/ (ProbeIssued(imap) /\ TouchesIdling(w)))
            /\ valid' = [valid EXCEPT ![w] = alive]
            /\ timeoutSess' = (timeoutSess /\ ~(ProbeIssued(imap) /\ ~probeOk))
            /\ pc' = [pc EXCEPT ![w] = IF alive THEN okPc ELSE connPc]
            /\ UNCHANGED <<runVars, cfgVars, connecting, orphan, boxVars, usedSinceListen,
                           reconnAfterTimeout, c9Vars, ids, cmdUnverified, notifPhase>>

\* connect_imap up to the construction of the new IMAPConnection: the lock is
\* taken, the old object is disconnected (its close() writes CLOSE when it
\* holds a handle) and replaced by a new object that has no handle yet.
ConnectBegin(w, fromPc, toPc) ==
    /\ pc[w] = fromPc
    /\ connecting = "none"
    /\ connecting' = w
    /\ imap' = FreshObject
    /\ sess' = "none"
    /\ orphan' \in OrphanAfterReplace
    /\ valid' = [x \in Workers |-> FALSE]
    /\ pollOnIdling' = (pollOnIdling \/ TouchesIdling(w))
    /\ reconnAfterTimeout' = (reconnAfterTimeout \/ (w = "idle" /\ timeoutSess))
    /\ timeoutSess' = FALSE
    /\ pc' = [pc EXCEPT ![w] = toPc]
    /\ UNCHANGED <<runVars, cfgVars, boxVars, usedSinceListen, c9Vars, ids, cmdUnverified,
                   notifPhase>>
    /\ UNCHANGED pollVars
    /\ UNCHANGED <<sendVars, unitVars>>

\* connect_imap from IMAPConnection.connect to the release of the lock.
ConnectEnd(w, fromPc, okPc, failPc, inCheck) ==
    /\ pc[w] = fromPc
    /\ connecting = w
    /\ \E outcome \in ConnectOutcomes :
        /\ imap' = ConnectResult(imap, outcome)
        /\ sess' = IF outcome = "ok" THEN "auth" ELSE "none"
        /\ valid' = [valid EXCEPT ![w] = (outcome = "ok")]
        /\ usedSinceListen' = (usedSinceListen \/ outcome = "ok")
        /\ pc' = [pc EXCEPT ![w] = IF outcome = "ok" THEN okPc ELSE failPc]
        /\ notifPhase' = IF inCheck /\ outcome # "ok"
                         THEN PhaseAfterCheck(w) ELSE notifPhase
        /\ pollFailed' = CycleGaveUp(w, inCheck, outcome # "ok")
    /\ connecting' = "none"
    /\ UNCHANGED <<polling_interval, fetchFailed>>
    /\ UNCHANGED <<runVars, cfgVars, orphan, boxVars, timeoutSess, reconnAfterTimeout, c9Vars,
                   ids, pollOnIdling, cmdUnverified>>
    /\ UNCHANGED <<sendVars, unitVars>>

\* _find_inbox_folder: LIST and the choice of the inbox folder.
FindFolder(w, fromPc, okPc, failPc, inCheck) ==
    /\ pc[w] = fromPc
    /\ \E found \in BOOLEAN :
        /\ sess' \in AfterStrayCommand
        /\ pc' = [pc EXCEPT ![w] = IF found /\ CommandPossible THEN okPc ELSE failPc]
        /\ notifPhase' = IF inCheck /\ ~(found /\ CommandPossible)
                         THEN PhaseAfterCheck(w) ELSE notifPhase
        /\ pollFailed' = CycleGaveUp(w, inCheck, ~(found /\ CommandPossible))
    /\ UNCHANGED <<polling_interval, fetchFailed>>
    /\ pollOnIdling' = (pollOnIdling \/ (HandlePresent /\ TouchesIdling(w)))
    /\ UNCHANGED <<runVars, cfgVars, imap, connecting, orphan, valid, boxVars, c8Vars, c9Vars,
                   ids, cmdUnverified>>
    /\ UNCHANGED <<sendVars, unitVars>>

\* connection.select(inbox_folder)
SelectFolder(w, fromPc, okPc, failPc, inCheck) ==
    /\ pc[w] = fromPc
    /\ \E ok \in BOOLEAN :
        /\ IF ok /\ CommandPossible
           THEN sess' = "selected"
           ELSE sess' \in AfterStrayCommand
        /\ pc' = [pc EXCEPT ![w] = IF ok /\ CommandPossible THEN okPc ELSE failPc]
        /\ notifPhase' = IF inCheck /\ ~(ok /\ CommandPossible)
                         THEN PhaseAfterCheck(w) ELSE notifPhase
        /\ pollFailed' = CycleGaveUp(w, inCheck, ~(ok /\ CommandPossible))
    /\ UNCHANGED <<polling_interval, fetchFailed>>
    /\ pollOnIdling' = (pollOnIdling \/ (HandlePresent /\ TouchesIdling(w)))
    /\ cmdUnverified' = (cmdUnverified \/ (HandlePresent /\ ~valid[w]))
    /\ UNCHANGED <<runVars, cfgVars, imap, connecting, orphan, valid, boxVars, c8Vars, c9Vars,
                   ids>>
    /\ UNCHANGED <<sendVars, unitVars>>

\* ---- check_new_messages (called by the poll worker and by the IDLE worker)

\* The IDLE worker enters check_new_messages: the connection check.
CheckAlive(w) ==
    /\ pc[w] = "check"
    /\ AliveCheck(w, "find", "connect")
    /\ UNCHANGED pollVars
    /\ UNCHANGED <<sendVars, unitVars>>

CheckConnectBegin(w) == ConnectBegin(w, "connect", "connecting")

CheckConnectEnd(w) == ConnectEnd(w, "connecting", "find", Ret(w), TRUE)

CheckFindFolder(w) == FindFolder(w, "find", "select", Ret(w), TRUE)

CheckSelect(w) == SelectFolder(w, "select", "search", Ret(w), TRUE)

\* connection.search(None, 'UNSEEN'): the ids to fetch.
CheckSearch(w) ==
    /\ pc[w] = "search"
    /\ \E ok \in BOOLEAN :
        LET good == ok /\ CommandPossible /\ sess = "selected"
        IN  /\ sess' \in IF good THEN {sess} ELSE AfterStrayCommand
            /\ ids' = [ids EXCEPT ![w] = IF good THEN Unseen ELSE {}]
            /\ pc' = [pc EXCEPT ![w] = IF good THEN "fetch" ELSE Ret(w)]
            /\ notifPhase' = IF good THEN notifPhase ELSE PhaseAfterCheck(w)
            /\ pollFailed' = CycleGaveUp(w, TRUE, ~good)
    /\ fetchFailed' = [fetchFailed EXCEPT ![w] = FALSE]
    /\ UNCHANGED polling_interval
    /\ pollOnIdling' = (pollOnIdling \/ (HandlePresent /\ TouchesIdling(w)))
    /\ cmdUnverified' = (cmdUnverified \/ (HandlePresent /\ ~valid[w]))
    /\ UNCHANGED <<runVars, cfgVars, imap, connecting, orphan, valid, boxVars, c8Vars, c9Vars>>
    /\ UNCHANGED <<sendVars, unitVars>>

\* The message after FETCH (RFC822): the server sets \Seen.
MarkSeen(state) == IF state = "foreign" THEN "foreign_seen"
                   ELSE IF state = "unseen" THEN "seen" ELSE state

\* _fetch_email delivers a message to message_received_callback when its
\* subject passes is_echat_message; the manager keeps no record of the
\* message ids it has delivered.
Delivers(m) == mail[m] \in {"unseen", "seen"}

\* What one _fetch_email can do: deliver the message; fail at FETCH; or fetch
\* the message and fail while decoding or handling it (caught, returns None).
FetchOutcomes == {"ok", "fetch_fail", "handling_fail"}

\* The ids left to the fetch loop after _fetch_email(m): the loop's
\* "except ... continue" and _fetch_email's own handler go on to the next id.
RemainingIdsAbort(S, m, good) == IF good THEN S \ {m} ELSE {}
RemainingIds(S, m, good) == S \ {m}

\* One pass of "for msg_id in message_ids[0].split()": _fetch_email of the
\* next id; after the last one update_last_used and return.
CheckFetch(w) ==
    /\ pc[w] = "fetch"
    /\ IF ids[w] = {}
       THEN /\ imap' = IF imap.obj THEN UpdateLastUsed(imap) ELSE imap
            /\ usedSinceListen' = (usedSinceListen \/ imap.obj)
            /\ pc' = [pc EXCEPT ![w] = Ret(w)]
            /\ notifPhase' = PhaseAfterCheck(w)
            /\ fetchFailed' = [fetchFailed EXCEPT ![w] = FALSE]
            /\ UNCHANGED <<ids, sess, mail, delivered, pollOnIdling, cmdUnverified>>
       ELSE LET m == MinOf(ids[w])
            IN  /\ \E outcome \in FetchOutcomes :
                    LET fetched == outcome # "fetch_fail" /\ CommandPossible /\ sess = "selected"
                        good == fetched /\ outcome = "ok"
                    IN  /\ ids' = [ids EXCEPT ![w] = RemainingIds(@, m, good)]
                        /\ sess' \in IF fetched THEN {sess} ELSE AfterStrayCommand
                        /\ mail' = IF fetched THEN [mail EXCEPT ![m] = MarkSeen(@)] ELSE mail
                        /\ delivered' = IF good /\ Delivers(m)
                                        THEN [delivered EXCEPT ![m] = @ + 1]
                                        ELSE delivered
                        /\ fetchFailed' = [fetchFailed EXCEPT ![w] = @ \/ ~good]
                /\ pollOnIdling' = (pollOnIdling \/ (HandlePresent /\ TouchesIdling(w)))
                /\ cmdUnverified' = (cmdUnverified \/ (HandlePresent /\ ~valid[w]))
                /\ UNCHANGED <<imap, usedSinceListen, pc, notifPhase>>
    /\ UNCHANGED <<runVars, cfgVars, connecting, orphan, valid, notif, timeoutSess,
                   reconnAfterTimeout, c9Vars, polling_interval, pollFailed>>
    /\ UNCHANGED <<sendVars, unitVars>>

\* ---- poll worker

\* check_new_messages never raises to its caller: a failed step returns []
\* and its outer "except Exception" returns [] as well.
CheckNewMessagesRaises == FALSE

\* _polling_worker: the wait between check_new_messages and the next loop
\* test, in seconds: the interval loop after a call that returned, sleep(5)
\* in the handler of an exception that left the call.
PollWait(raised) == IF raised THEN 5 ELSE polling_interval

\* _polling_worker: "while self.polling_running", then check_new_messages
\* (its connection check); the wait between two cycles ends here.
PollLoop ==
    /\ pc["poll"] = "loop"
    /\ IF ~polling_running
       THEN /\ pc' = [pc EXCEPT !["poll"] = "stopped"]
            /\ UNCHANGED <<runVars, cfgVars, connVars, boxVars, c8Vars, c9Vars, ids,
                           pollOnIdling, cmdUnverified, notifPhase>>
       ELSE AliveCheck("poll", "find", "connect")
    /\ pollFailed' = FALSE
    /\ UNCHANGED <<polling_interval, fetchFailed>>
    /\ UNCHANGED <<sendVars, unitVars>>

\* ---- IDLE worker

\* _idle_worker: "while self.idle_running", then the connection check.
IdleLoop ==
    /\ pc["idle"] = "i_loop"
    /\ IF ~idle_running
       THEN /\ pc' = [pc EXCEPT !["idle"] = "stopped"]
            /\ UNCHANGED <<runVars, cfgVars, connVars, boxVars, c8Vars, c9Vars, ids,
                           pollOnIdling, cmdUnverified, notifPhase>>
       ELSE AliveCheck("idle", "i_find", "i_connect")
    /\ UNCHANGED pollVars
    /\ UNCHANGED <<sendVars, unitVars>>

IdleConnectBegin == ConnectBegin("idle", "i_connect", "i_connecting")

\* a failed reconnect: sleep(10), continue
IdleConnectEnd == ConnectEnd("idle", "i_connecting", "i_find", "i_loop", FALSE)

\* no inbox folder: sleep(30), continue
IdleFindFolder == FindFolder("idle", "i_find", "i_select", "i_loop", FALSE)

\* select not OK: sleep(30), continue
IdleSelect == SelectFolder("idle", "i_select", "i_idle", "i_loop", FALSE)

\* _idle_listen up to the long-poll: the IDLE command is written to the
\* socket and the continuation response is read; with idle_running cleared
\* the listen loop is skipped and DONE follows at once.
IdleStart ==
    /\ pc["idle"] = "i_idle"
    /\ \E accepted \in BOOLEAN :
        LET good == accepted /\ HandlePresent /\ sess = "selected"
        IN  IF good /\ idle_running
            THEN /\ sess' = "idle"
                 /\ pc' = [pc EXCEPT !["idle"] = "listen"]
                 /\ notif' = FALSE
                 /\ usedSinceListen' = FALSE
                 /\ notifPhase' = PhaseAtIdle
            ELSE /\ sess' \in IF good THEN {sess} ELSE AfterStrayCommand
                 /\ pc' = [pc EXCEPT !["idle"] = "i_loop"]
                 /\ UNCHANGED <<notif, usedSinceListen, notifPhase>>
    /\ cmdUnverified' = (cmdUnverified \/ (HandlePresent /\ ~valid["idle"]))
    /\ timeoutSess' = FALSE
    /\ UNCHANGED <<runVars, cfgVars, imap, connecting, orphan, valid, mail, delivered,
                   reconnAfterTimeout, c9Vars, ids, pollOnIdling>>
    /\ UNCHANGED pollVars
    /\ UNCHANGED <<sendVars, unitVars>>

\* recv returns an EXISTS/EXPUNGE/RECENT notification.
IdleRecvNotification ==
    /\ Listening
    /\ ListenSessionIdle
    /\ notif
    /\ notif' = FALSE
    /\ notifPhase' = IF notifPhase = "skipped" THEN notifPhase ELSE "notified"
    /\ orphan' = "none"
    /\ pc' = [pc EXCEPT !["idle"] = "notified"]
    /\ UNCHANGED <<runVars, cfgVars, imap, connecting, sess, valid, mail, delivered, c8Vars,
                   c9Vars, ids, pollOnIdling, cmdUnverified>>
    /\ UNCHANGED pollVars
    /\ UNCHANGED <<sendVars, unitVars>>

\* After a notification: DONE is written to the socket of the current
\* self.imap_connection, its response is read and _idle_listen returns True;
\* without a handle the attribute access raises, on a lost connection send
\* or recv may raise, and _idle_listen returns False.
IdleSendDone ==
    /\ pc["idle"] = "notified"
    /\ \E raises \in BOOLEAN :
        IF HandlePresent /\ ~(raises /\ sess = "none")
        THEN /\ sess' = IF sess = "idle" THEN "selected" ELSE sess
             /\ notifPhase' = IF notifPhase = "notified" THEN "done" ELSE notifPhase
             /\ pc' = [pc EXCEPT !["idle"] = "check"]
        ELSE /\ pc' = [pc EXCEPT !["idle"] = "i_loop"]
             /\ UNCHANGED <<sess, notifPhase>>
    /\ UNCHANGED <<runVars, cfgVars, imap, connecting, orphan, valid, boxVars, c8Vars, c9Vars,
                   ids, pollOnIdling, cmdUnverified>>
    /\ UNCHANGED pollVars
    /\ UNCHANGED <<sendVars, unitVars>>

\* recv returns other data while the session idles: "tag in response" raises
\* TypeError (the tag is bytes), the handler returns False, no DONE is sent.
IdleRecvOther ==
    /\ Listening
    /\ ListenSessionIdle
    /\ orphan' = "none"
    /\ pc' = [pc EXCEPT !["idle"] = "i_loop"]
    /\ UNCHANGED <<runVars, cfgVars, imap, connecting, sess, valid, boxVars, c8Vars, c9Vars,
                   ids, pollOnIdling, cmdUnverified, notifPhase>>
    /\ UNCHANGED pollVars
    /\ UNCHANGED <<sendVars, unitVars>>

\* recv returns the completion of an IDLE ended from outside (stop_idle's
\* DONE, a stray command) or fails on a lost connection: returns False.
IdleRecvEnded ==
    /\ Listening
    /\ ~ListenSessionIdle
    /\ orphan' = "none"
    /\ pc' = [pc EXCEPT !["idle"] = "i_loop"]
    /\ UNCHANGED <<runVars, cfgVars, imap, connecting, sess, valid, boxVars, c8Vars, c9Vars,
                   ids, pollOnIdling, cmdUnverified, notifPhase>>
    /\ UNCHANGED pollVars
    /\ UNCHANGED <<sendVars, unitVars>>

\* socket.timeout after 28 minutes without data: DONE is written to the
\* socket of the current self.imap_connection, _idle_listen returns False.
\* Nothing having used the connection meanwhile, last_used is over 10 minutes old.
IdleTimeout ==
    /\ Listening
    /\ ~notif
    /\ sess' = IF HandlePresent /\ sess = "idle" THEN "selected" ELSE sess
    /\ timeoutSess' = (orphan = "none" /\ HandlePresent /\ sess = "idle")
    /\ imap' = IF ~usedSinceListen /\ imap.last_used = "fresh"
               THEN [imap EXCEPT !.last_used = "old"] ELSE imap
    /\ orphan' = "none"
    /\ pc' = [pc EXCEPT !["idle"] = "i_loop"]
    /\ UNCHANGED <<runVars, cfgVars, connecting, valid, boxVars, usedSinceListen,
                   reconnAfterTimeout, c9Vars, ids, pollOnIdling, cmdUnverified, notifPhase>>
    /\ UNCHANGED pollVars
    /\ UNCHANGED <<sendVars, unitVars>>

\* ---- environment

\* A message arrives in the mailbox (E-Chat or foreign subject); a session in
\* IDLE is notified.
MailArrives ==
    \E m \in Mail, kind \in {"unseen", "foreign"} :
        /\ m <= inboxCap
        /\ mail[m] = "absent"
        /\ \A n \in Mail : n < m => mail[n] # "absent"
        /\ mail' = [mail EXCEPT ![m] = kind]
        /\ notif' = (notif \/ (Listening /\ ListenSessionIdle))
        /\ UNCHANGED <<runVars, cfgVars, connVars, delivered, c8Vars, c9Vars, pollVars, pc, ids,
                       pollOnIdling, cmdUnverified, notifPhase>>
        /\ UNCHANGED <<sendVars, unitVars>>

\* More than 10 minutes pass since the IMAP connection was last used.
ImapIdleTimePasses ==
    /\ imap.last_used = "fresh"
    /\ imap' = [imap EXCEPT !.last_used = "old"]
    /\ UNCHANGED <<runVars, cfgVars, connecting, sess, orphan, valid, boxVars, c8Vars, c9Vars,
                   pc, ids, pollOnIdling, cmdUnverified, notifPhase>>
    /\ UNCHANGED pollVars
    /\ UNCHANGED <<sendVars, unitVars>>

\* The connection to the IMAP server is lost.
LinkLost ==
    /\ sess # "none"
    /\ sess' = "none"
    /\ timeoutSess' = FALSE
    /\ notifPhase' = IF notifPhase \in {"notified", "done"} THEN "none" ELSE notifPhase
    /\ UNCHANGED <<runVars, cfgVars, imap, connecting, orphan, valid, boxVars, usedSinceListen,
                   reconnAfterTimeout, c9Vars, pc, ids, pollOnIdling, cmdUnverified>>
    /\ UNCHANGED pollVars
    /\ UNCHANGED <<sendVars, unitVars>>

WatchNext ==
    \/ TestIdleSupport
    \/ StartPolling
    \/ StopPolling
    \/ StopIdle
    \/ PollLoop
    \/ IdleLoop
    \/ \E w \in Workers : CheckAlive(w)
    \/ \E w \in Workers : CheckConnectBegin(w)
    \/ \E w \in Workers : CheckConnectEnd(w)
    \/ \E w \in Workers : CheckFindFolder(w)
    \/ \E w \in Workers : CheckSelect(w)
    \/ \E w \in Workers : CheckSearch(w)
    \/ \E w \in Workers : CheckFetch(w)
    \/ IdleConnectBegin
    \/ IdleConnectEnd
    \/ IdleFindFolder
    \/ IdleSelect
    \/ IdleStart
    \/ IdleRecvNotification
    \/ IdleSendDone
    \/ IdleRecvOther
    \/ IdleRecvEnded
    \/ IdleTimeout
    \/ MailArrives
    \/ ImapIdleTimePasses
    \/ LinkLost

\* ===================================================== one EmailConnection

\* What connection.noop() can do: succeed; return an error reply (smtplib
\* returns (421, ...) or (5xx, ...), imaplib returns ('NO', ...)) without
\* raising; raise.
ProbeOutcomes == {"ok", "error_reply", "raises"}

\* is_alive: the probe sits in "try ... except Exception", nothing else in the
\* method can raise.
IsAliveRaises(c, probe) == FALSE

\* EmailConnection.disconnect: quit(), on failure close(), and in every case
\* the "finally" that clears the state; without a handle nothing happens.
DisconnectKeepsOnFailure(c, quitOk, closeOk) ==
    IF c.connection /\ (quitOk \/ closeOk)
    THEN [c EXCEPT !.connection = FALSE, !.is_connected = FALSE, !.last_used = "none"]
    ELSE c
Disconnect(c, quitOk, closeOk) ==
    IF c.connection
    THEN [c EXCEPT !.connection = FALSE, !.is_connected = FALSE, !.last_used = "none"]
    ELSE c

\* disconnect: the handler of a failed quit() wraps close() in its own
\* "try ... except: pass".
DisconnectRaises(c, quitOk, closeOk) == FALSE

NoCall == [op |-> "none", probe |-> "not_issued", result |-> "none", before |-> FreshObject]

ConnInit ==
    /\ emailConn = FreshObject
    /\ call = NoCall
    /\ stale = FALSE

\* connect_smtp / connect_imap construct a new instance in place of the old one.
ConnCreate ==
    /\ emailConn # FreshObject
    /\ emailConn' = FreshObject
    /\ call' = NoCall
    /\ stale' = FALSE
    /\ UNCHANGED <<codec, folder, thread, manager, sendVars, watchVars>>

\* IMAPConnection.connect, after login on a 126.com / 163.com server: the
\* CAPABILITY and ID exchange runs inside its own try, whose "except
\* Exception" prints and goes on, and a reply without "<tag> OK" is only
\* printed.  id: the exchange was acknowledged, answered without OK, or raised.
IdCommandFatal(id) == IF id = "acknowledged" THEN "continue" ELSE "raise"
IdCommand(id) == "continue"

\* connect() on the new instance: SMTPConnection.connect, or
\* IMAPConnection.connect with the ID exchange (call.probe) where the server
\* is one that gets it.  An exception leaving the exchange would reach the
\* outer handler like a failed login.
ConnConnect ==
    /\ emailConn = FreshObject
    /\ \E outcome \in ConnectOutcomes,
          id \in {"not_issued", "acknowledged", "not_ok", "raises"} :
        LET end == IF id # "not_issued" /\ IdCommand(id) = "raise" THEN "login_fail"
                   ELSE outcome
        IN  /\ outcome # "ok" => id = "not_issued"
            /\ emailConn' = ConnectResult(emailConn, end)
            /\ call' = [op |-> "connect", probe |-> id,
                        result |-> IF end = "ok" THEN "true" ELSE "false",
                        before |-> emailConn]
            /\ stale' = (stale /\ end # "ok")
    /\ UNCHANGED <<codec, folder, thread, manager, sendVars, watchVars>>

\* is_alive()
ConnIsAlive ==
    /\ \E probe \in ProbeOutcomes :
        LET issued == ProbeIssued(emailConn)
            timedOut == emailConn.connection /\ emailConn.is_connected /\ emailConn.last_used = "old"
        IN  /\ emailConn' = AfterIsAlive(emailConn, probe # "raises")
            /\ call' = [op |-> "is_alive",
                        probe |-> IF issued THEN probe ELSE "not_issued",
                        result |-> IF IsAliveRaises(emailConn, probe) THEN "raised"
                                   ELSE IF IsAlive(emailConn, probe # "raises") THEN "true"
                                   ELSE "false",
                        before |-> emailConn]
            /\ stale' = (stale \/ timedOut \/ (issued /\ probe = "raises"))
    /\ UNCHANGED <<codec, folder, thread, manager, sendVars, watchVars>>

\* update_last_used(), as the workers call it at the end of a send or a check.
ConnUpdateLastUsed ==
    /\ emailConn.connection
    /\ emailConn' = UpdateLastUsed(emailConn)
    /\ call' = [op |-> "update_last_used", probe |-> "not_issued", result |-> "none",
                before |-> emailConn]
    /\ UNCHANGED <<stale, codec, folder, thread, manager, sendVars, watchVars>>

\* disconnect()
ConnDisconnect ==
    /\ \E quitOk \in BOOLEAN, closeOk \in BOOLEAN :
        /\ quitOk => closeOk
        /\ emailConn' = Disconnect(emailConn, quitOk, closeOk)
        /\ call' = [op |-> "disconnect", probe |-> "not_issued",
                    result |-> IF DisconnectRaises(emailConn, quitOk, closeOk) THEN "raised"
                               ELSE IF quitOk THEN "quit" ELSE IF closeOk THEN "close"
                               ELSE "neither",
                    before |-> emailConn]
    /\ UNCHANGED <<stale, codec, folder, thread, manager, sendVars, watchVars>>

\* send_message_sync's except branch resets the instance after a failed send.
ConnSendFailure ==
    /\ emailConn.connection /\ emailConn.is_connected
    /\ emailConn' = ResetAfterSendFailure([emailConn EXCEPT !.obj = TRUE])
    /\ call' = [op |-> "send_failure", probe |-> "not_issued", result |-> "none",
                before |-> emailConn]
    /\ UNCHANGED <<stale, codec, folder, thread, manager, sendVars, watchVars>>

\* More than 10 minutes pass since last_used.
ConnTimePasses ==
    /\ emailConn.last_used = "fresh"
    /\ emailConn' = [emailConn EXCEPT !.last_used = "old"]
    /\ UNCHANGED <<call, stale, codec, folder, thread, manager, sendVars, watchVars>>

\* ============================================================ folder names
\* Folder names are sequences of Unicode code points.

\* _encode_imap_utf7: an ASCII name is returned as it is; another name is
\* encoded as UTF-16BE, then base64 with "," for "/" and without the
\* trailing "=", between "&" and "-"; a name that cannot be encoded (a lone
\* surrogate) is returned as it is.
EncodeImapUtf7(unicode_str) ==
    LET B64Char(n) == IF n < 26 THEN 65 + n
                      ELSE IF n < 52 THEN 97 + (n - 26)
                      ELSE IF n < 62 THEN 48 + (n - 52)
                      ELSE IF n = 62 THEN 43 ELSE 47
        RECURSIVE Utf16be(_)
        Utf16be(s) ==
            IF s = <<>> THEN <<>>
            ELSE LET cp == Head(s)
                     hi == 55296 + (cp - 65536) \div 1024
                     lo == 56320 + ((cp - 65536) % 1024)
                 IN  (IF cp < 65536 THEN <<cp \div 256, cp % 256>>
                      ELSE <<hi \div 256, hi % 256, lo \div 256, lo % 256>>)
                     \o Utf16be(Tail(s))
        RECURSIVE B64Encode(_)
        B64Encode(b) ==
            IF b = <<>> THEN <<>>
            ELSE IF Len(b) = 1
            THEN <<B64Char(b[1] \div 4), B64Char((b[1] % 4) * 16), 61, 61>>
            ELSE IF Len(b) = 2
            THEN <<B64Char(b[1] \div 4), B64Char((b[1] % 4) * 16 + b[2] \div 16),
                   B64Char((b[2] % 16) * 4), 61>>
            ELSE <<B64Char(b[1] \div 4), B64Char((b[1] % 4) * 16 + b[2] \div 16),
                   B64Char((b[2] % 16) * 4 + b[3] \div 64), B64Char(b[3] % 64)>>
                 \o B64Encode(SubSeq(b, 4, Len(b)))
        b64_str == B64Encode(Utf16be(unicode_str))
        replaced == [i \in 1..Len(b64_str) |-> IF b64_str[i] = 47 THEN 44 ELSE b64_str[i]]
    IN  IF \A i \in 1..Len(unicode_str) : unicode_str[i] < 128 THEN unicode_str
        ELSE IF \E i \in 1..Len(unicode_str) : unicode_str[i] \in 55296..57343
        THEN unicode_str
        ELSE <<38>> \o SelectSeq(replaced, LAMBDA c : c # 61) \o <<45>>

\* _decode_imap_utf7 (names without "="): a name that does not start with
\* "&" and end with "-" is returned as it is, "&-" gives "&"; otherwise the
\* inner part, "," replaced by "/" and padded, is base64-decoded (characters
\* outside the alphabet are skipped) and the bytes decoded as UTF-16BE; when
\* a step raises the name is returned as it is.
DecodeImapUtf7(encoded_str) ==
    LET B64Value(c) == IF c \in 65..90 THEN c - 65
                       ELSE IF c \in 97..122 THEN c - 97 + 26
                       ELSE IF c \in 48..57 THEN c - 48 + 52
                       ELSE IF c = 43 THEN 62
                       ELSE IF c = 47 THEN 63 ELSE -1
        RECURSIVE SextetBytes(_)
        SextetBytes(v) ==
            IF Len(v) < 2 THEN <<>>
            ELSE IF Len(v) = 2 THEN <<v[1] * 4 + v[2] \div 16>>
            ELSE IF Len(v) = 3
            THEN <<v[1] * 4 + v[2] \div 16, (v[2] % 16) * 16 + v[3] \div 4>>
            ELSE <<v[1] * 4 + v[2] \div 16, (v[2] % 16) * 16 + v[3] \div 4,
                   (v[3] % 4) * 64 + v[4]>>
                 \o SextetBytes(SubSeq(v, 5, Len(v)))
        RECURSIVE Utf16beDecode(_)
        Utf16beDecode(b) ==
            IF b = <<>> THEN [ok |-> TRUE, s |-> <<>>]
            ELSE IF Len(b) < 2 THEN [ok |-> FALSE, s |-> <<>>]
            ELSE LET u == b[1] * 256 + b[2]
                     pair == u \in 55296..56319 /\ Len(b) >= 4
                             /\ (b[3] * 256 + b[4]) \in 56320..57343
                     rest == Utf16beDecode(SubSeq(b, IF pair THEN 5 ELSE 3, Len(b)))
                 IN  IF u \in 55296..57343 /\ ~pair THEN [ok |-> FALSE, s |-> <<>>]
                     ELSE IF ~rest.ok THEN rest
                     ELSE [ok |-> TRUE,
                           s |-> <<IF pair
                                   THEN 65536 + (u - 55296) * 1024
                                        + (b[3] * 256 + b[4] - 56320)
                                   ELSE u>> \o rest.s]
        inner == SubSeq(encoded_str, 2, Len(encoded_str) - 1)
        b64_str == [i \in 1..Len(inner) |-> IF inner[i] = 44 THEN 47 ELSE inner[i]]
        padding == (4 - (Len(b64_str) % 4)) % 4
        data == SelectSeq(b64_str, LAMBDA c : B64Value(c) >= 0)
        left == Len(data) % 4
        decoded_bytes == SextetBytes([i \in 1..Len(data) |-> B64Value(data[i])])
        decoded == Utf16beDecode(decoded_bytes)
    IN  IF encoded_str = <<>> \/ Head(encoded_str) # 38
           \/ encoded_str[Len(encoded_str)] # 45
        THEN encoded_str
        ELSE IF inner = <<>> THEN <<38>>
        ELSE IF \E i \in 1..Len(inner) : inner[i] >= 128 THEN encoded_str
        ELSE IF left = 1 \/ (left = 2 /\ padding < 2) \/ (left = 3 /\ padding < 1)
        THEN encoded_str
        ELSE IF ~decoded.ok THEN encoded_str
        ELSE decoded.s

\* _find_inbox_folder on the listing _list_imap_folders returned (distinct,
\* non-empty names) and the configured 'inbox_folder'; <<>> stands for None.
FindInboxFolder(available_folders, inbox_folder) ==
    LET RECURSIVE StripBlanks(_)
        StripBlanks(s) ==
            IF s # <<>> /\ Head(s) = 32 THEN StripBlanks(Tail(s))
            ELSE IF s # <<>> /\ s[Len(s)] = 32 THEN StripBlanks(SubSeq(s, 1, Len(s) - 1))
            ELSE s
        Lower(s) == [i \in 1..Len(s) |-> IF s[i] \in 65..90 THEN s[i] + 32 ELSE s[i]]
        Contains(s, sub) ==
            \E i \in 0..(Len(s) - Len(sub)) : SubSeq(s, i + 1, i + Len(sub)) = sub
        Listed(name) == \E i \in 1..Len(available_folders) : available_folders[i] = name
        custom_inbox == StripBlanks(inbox_folder)
        Synonym(f) == Lower(DecodeImapUtf7(f)) \in {<<25910, 20214, 31665>>,
                                                    <<105, 110, 98, 111, 120>>,
                                                    <<37038, 31665>>}
        HasInbox(f) == Contains(Lower(DecodeImapUtf7(f)), <<105, 110, 98, 111, 120>>)
        HasShouJian(f) == Contains(DecodeImapUtf7(f), <<25910, 20214>>)
        FirstFolder(P(_)) == available_folders[CHOOSE i \in 1..Len(available_folders) :
                           /\ P(available_folders[i])
                           /\ \A j \in 1..(i - 1) : ~P(available_folders[j])]
        AnyFolder(P(_)) == \E i \in 1..Len(available_folders) : P(available_folders[i])
    IN  IF available_folders = <<>> THEN <<>>
        ELSE IF custom_inbox # <<>> /\ Listed(custom_inbox) THEN custom_inbox
        ELSE IF Listed(<<73, 78, 66, 79, 88>>) THEN <<73, 78, 66, 79, 88>>
        ELSE IF AnyFolder(Synonym) THEN FirstFolder(Synonym)
        ELSE IF AnyFolder(HasInbox) THEN FirstFolder(HasInbox)
        ELSE IF AnyFolder(HasShouJian) THEN FirstFolder(HasShouJian)
        ELSE available_folders[1]

\* Names the two conversions are given: INBOX, "&-", "&", "&AGEAYg-", 收件箱,
\* "a&b-", é, an emoji, "&abc-", "&ab-", the empty name, a lone surrogate,
\* "Aé", "&.-", "&é-", "&2D0-".
FolderNames ==
    {<<73, 78, 66, 79, 88>>, <<38, 45>>, <<38>>, <<38, 65, 71, 69, 65, 89, 103, 45>>,
     <<25910, 20214, 31665>>, <<97, 38, 98, 45>>, <<233>>, <<128512>>,
     <<38, 97, 98, 99, 45>>, <<38, 97, 98, 45>>, <<>>, <<55296>>, <<65, 233>>,
     <<38, 46, 45>>, <<38, 233, 45>>, <<38, 50, 68, 48, 45>>}

\* Folder listings: INBOX, Inbox, xinbox, "&ZTZO9nux-" (收件箱), "&ZTZO9g-"
\* (收件) and Sent, in any order.
Listings ==
    LET pool == {<<73, 78, 66, 79, 88>>, <<73, 110, 98, 111, 120>>,
                 <<120, 105, 110, 98, 111, 120>>,
                 <<38, 90, 84, 90, 79, 57, 110, 117, 120, 45>>,
                 <<38, 90, 84, 90, 79, 57, 103, 45>>, <<83, 101, 110, 116>>}
    IN  {l \in UNION {[1..n -> pool] : n \in 0..MaxFolders} :
            \A i, j \in 1..Len(l) : i # j => l[i] # l[j]}

\* _encode_imap_utf7(name)
EncodeName ==
    /\ \E s \in FolderNames :
        folder' = [op |-> "encode", arg |-> s, listing |-> <<>>, custom |-> <<>>,
                   result |-> EncodeImapUtf7(s)]
    /\ UNCHANGED <<emailConn, call, stale, codec, thread, manager, sendVars, watchVars>>

\* _decode_imap_utf7(name)
DecodeName ==
    /\ \E s \in FolderNames :
        folder' = [op |-> "decode", arg |-> s, listing |-> <<>>, custom |-> <<>>,
                   result |-> DecodeImapUtf7(s)]
    /\ UNCHANGED <<emailConn, call, stale, codec, thread, manager, sendVars, watchVars>>

\* _decode_imap_utf7 on what _encode_imap_utf7 just returned.
DecodeEncoded ==
    /\ folder.op = "encode"
    /\ folder' = [folder EXCEPT !.op = "decode_encoded",
                               !.result = DecodeImapUtf7(folder.result)]
    /\ UNCHANGED <<emailConn, call, stale, codec, thread, manager, sendVars, watchVars>>

\* _find_inbox_folder; configured names: none, Sent, " Sent ", Nope.
FindInbox ==
    /\ \E listing \in Listings,
          custom \in {<<>>, <<83, 101, 110, 116>>, <<32, 83, 101, 110, 116, 32>>,
                      <<78, 111, 112, 101>>} :
        folder' = [op |-> "find_inbox_folder", arg |-> <<>>, listing |-> listing,
                   custom |-> custom, result |-> FindInboxFolder(listing, custom)]
    /\ UNCHANGED <<emailConn, call, stale, codec, thread, manager, sendVars, watchVars>>

\* ============================================================ message codec

\* Python values that json.dumps writes: str, int, bool, and dict with its
\* keys in insertion order.
PyStr(s) == [t |-> "str", v |-> s]
PyDict(keys, f) == [t |-> "dict", keys |-> keys, v |-> f]

\* No value (None).
NoValue == PyDict(<<>>, <<>>)

SUBJECT_PREFIX == <<"[", "E", "-", "C", "h", "a", "t", "]">>

\* str.startswith
StartsWithAlways(s, prefix) == TRUE
StartsWith(s, prefix) == Len(s) >= Len(prefix) /\ SubSeq(s, 1, Len(prefix)) = prefix

\* MessageParser.is_echat_message
IsEchatMessage(email_subject) == StartsWith(email_subject, SUBJECT_PREFIX)

\* s[:n]
Take(s, n) == SubSeq(s, 1, IF Len(s) < n THEN Len(s) ELSE n)

\* s.split('_')[-1]
RECURSIVE LastSegment(_)
LastSegment(s) ==
    IF \A i \in 1..Len(s) : s[i] # "_" THEN s
    ELSE LastSegment(Tail(s))

\* format_email_subject: "[E-Chat] <type>_<timestamp>_<short id>", the short
\* id being the first 8 characters of the last '_' segment of the message id.
FormatEmailSubject(message_type, timestamp, message_id) ==
    SUBJECT_PREFIX \o <<" ">> \o message_type \o <<"_">> \o timestamp \o <<"_">>
        \o Take(LastSegment(message_id), 8)

\* email_msg.get('Subject', '') on the fetched message.
HeaderValue(s) == LStrip(s)

\* Message types and ids format_email_subject is given, and clock readings.
SubjectTypes == {<<"t", "e", "x", "t">>, <<"f", "i", "l", "e">>}
Timestamps == {<<"2", "0", "2", "5">>, <<"2", "0", "2", "6">>}
MessageIds == {<<"e", "_", "2", "5", "_", "a", "1", "b", "2", "c", "3", "d", "4">>,
               <<"e", "_", "2", "5", "_", "a", "1", "b", "2", "c", "3", "d", "4", "e", "5">>,
               <<"u", "n", "k", "n", "o", "w", "n">>}

\* Subject header lines of fetched messages, as they follow "Subject:".
FetchSubjects ==
    {<<>>,
     SUBJECT_PREFIX,
     <<" ">> \o SUBJECT_PREFIX \o <<" ", "h", "i">>,
     <<"R", "e", ":", " ">> \o SUBJECT_PREFIX,
     <<"[", "e", "-", "c", "h", "a", "t", "]">>,
     <<"[", "E", "-", "C", "h", "a", "t">>,
     <<"h", "i">>}
    \cup {<<" ">> \o FormatEmailSubject(t, ts, id) :
              t \in SubjectTypes, ts \in {<<"2", "0", "2", "6">>}, id \in MessageIds}

\* What json.loads gives for the part of a body from its first '{': an
\* error, or a dict of which version, type and content are looked at.
JsonValues ==
    [error : {"JSONDecodeError", "RecursionError"},
     version : {"missing"}, type : {"missing"}, content : {"missing"}, value : {NoValue}]
    \cup
    [error : {"none"}, version : {"1.0", "missing"},
     type : {"text", "image", "video", "missing"},
     content : {"dict", "string", "missing"}, value : {NoValue}]

NoJson == [error |-> "none", version |-> "missing", type |-> "missing", content |-> "missing",
           value |-> NoValue]

\* Mail bodies: the text, whether it holds a '{', and what json.loads makes
\* of the part from there.
BodyTexts == {<<"h", "i">>, <<" ", "h", "i", " ">>}
Bodies ==
    [text : BodyTexts, brace : {FALSE}, json : {<<>>}, loads : {NoJson}]
    \cup [text : BodyTexts, brace : {TRUE}, json : {<<>>}, loads : JsonValues]

\* _validate_message_format
ValidateMessageFormat(data) ==
    /\ data.version # "missing" /\ data.type # "missing" /\ data.content # "missing"
    /\ data.type \in MESSAGE_TYPES
    /\ data.content = "dict"

\* _create_fallback_message
CreateFallbackMessage(body) ==
    [kind |-> "fallback", version |-> "unknown", type |-> "text", text |-> Strip(body.text),
     fallback |-> TRUE]

\* parse_message_body returned None / was not called.
NoneResult == [kind |-> "none"]
NotParsed == [kind |-> "not_parsed"]

\* parse_message_body: no '{' or a JSONDecodeError or a failed validation give
\* the fallback message; any other exception of json.loads gives None.
ParseMessageBody(body) ==
    IF ~body.brace THEN CreateFallbackMessage(body)
    ELSE IF body.loads.error = "JSONDecodeError" THEN CreateFallbackMessage(body)
    ELSE IF body.loads.error # "none" THEN NoneResult
    ELSE IF ValidateMessageFormat(body.loads)
         THEN [kind |-> "envelope", version |-> body.loads.version, type |-> body.loads.type,
               data |-> body.loads.value]
         ELSE CreateFallbackMessage(body)

NoBody == [text |-> <<>>, brace |-> FALSE, json |-> <<>>, loads |-> NoJson]

\* ---- building, formatting and decoding an envelope

\* MessageParser.MESSAGE_VERSION
MESSAGE_VERSION == "1.0"

\* MessageParser.app_info
AppInfo ==
    PyDict(<<"app", "version", "protocol_version">>,
           [app |-> PyStr("E-Chat"), version |-> PyStr("1.0.0"),
            protocol_version |-> PyStr(MESSAGE_VERSION)])

\* create_text_message: {"text": content}
TextContent(text) == PyDict(<<"text">>, [text |-> PyStr(text)])

\* create_file_message: text, file_name, file_size and, when file_data is not
\* empty, its base64 text and the encoding.
FileContent(text, file_name, file_size, file_data) ==
    IF file_data.bytes # <<>>
    THEN PyDict(<<"text", "file_name", "file_size", "file_data", "encoding">>,
                [text |-> PyStr(text), file_name |-> PyStr(file_name),
                 file_size |-> [t |-> "int", v |-> file_size], file_data |-> PyStr(file_data.b64),
                 encoding |-> PyStr("base64")])
    ELSE PyDict(<<"text", "file_name", "file_size">>,
                [text |-> PyStr(text), file_name |-> PyStr(file_name),
                 file_size |-> [t |-> "int", v |-> file_size]])

\* create_status_message without status_data
StatusContent(status_type, clock) ==
    PyDict(<<"status_type", "timestamp">>,
           [status_type |-> PyStr(status_type), timestamp |-> PyStr(clock)])

\* What _create_base_message is asked to build: the three public creators
\* pass "text", "file" and "status"; the other types are passed directly.
\* File bytes come with the text base64.b64encode gives for them.
Requests ==
    [type : {"text"},
     content : {TextContent(x) : x \in {<<"h", "i">>, <<"{", "}">>, <<>>}}]
    \cup [type : {"file"},
          content : {FileContent(<<"h", "i">>, <<"a", ".", "t", "x", "t">>, Len(d.bytes), d) :
                         d \in {[bytes |-> <<>>, b64 |-> <<>>],
                                [bytes |-> <<104, 105>>, b64 |-> <<"a", "G", "k", "=">>]}}]
    \cup [type : {"status"}, content : {StatusContent(<<"o", "n">>, ts) : ts \in Timestamps}]
    \cup [type : {"system", "image", "video"}, content : {TextContent(<<"h", "i">>)}]

\* _create_base_message: the message dict.
BaseMessage(sender, recipient, message_type, content, message_id, clock) ==
    PyDict(<<"version", "message_id", "type", "sender", "recipient", "timestamp",
             "content", "client_info">>,
           [version |-> PyStr(MESSAGE_VERSION), message_id |-> PyStr(message_id),
            type |-> PyStr(message_type), sender |-> PyStr(sender),
            recipient |-> PyStr(recipient), timestamp |-> PyStr(clock),
            content |-> content, client_info |-> AppInfo])

\* format_message_body: the copy that is dumped; a file message's file_data
\* is deleted from the copy of its content and has_attachment is added.
BodyMessageKeepsData(m) == m
BodyMessage(m) ==
    LET c == m.v["content"]
    IN  IF m.v["type"].v = "file" /\ "file_data" \in DOMAIN c.v
        THEN [m EXCEPT !.v["content"] =
                 PyDict(SelectSeq(c.keys, LAMBDA k : k # "file_data") \o <<"has_attachment">>,
                        [k \in (DOMAIN c.v \ {"file_data"}) \cup {"has_attachment"} |->
                            IF k = "has_attachment" THEN [t |-> "bool", v |-> TRUE] ELSE c.v[k]])]
        ELSE m

\* json.dumps: the JSON text as a sequence of tokens, punctuation and
\* literals that carry the Python type and value they were written from.
JsonDumps(x) ==
    LET Punct(c) == [k |-> "punct", v |-> c]
        RECURSIVE DumpValue(_), DumpMembers(_, _)
        DumpValue(y) ==
            IF y.t = "dict"
            THEN <<Punct("{")>> \o DumpMembers(y.keys, y.v) \o <<Punct("}")>>
            ELSE <<[k |-> y.t, v |-> y.v]>>
        DumpMembers(keys, f) ==
            IF keys = <<>> THEN <<>>
            ELSE <<[k |-> "str", v |-> Head(keys)], Punct(":")>> \o DumpValue(f[Head(keys)])
                 \o (IF Len(keys) > 1 THEN <<Punct(",")>> \o DumpMembers(Tail(keys), f)
                     ELSE <<>>)
    IN  DumpValue(x)

\* json.loads of a text, as parse_message_body looks at the result: the
\* parse of one value from position i and of the members of an object (a
\* repeated key keeps its last value); text left over is an error.
JsonLoads(toks) ==
    LET ParseFail == [ok |-> FALSE, val |-> NoValue, next |-> 0]
        IsPunct(i, c) == i <= Len(toks) /\ toks[i].k = "punct" /\ toks[i].v = c
        RECURSIVE ParseValue(_), ParseMembers(_, _, _)
        ParseValue(i) ==
            IF i > Len(toks) THEN ParseFail
            ELSE IF toks[i].k = "punct"
            THEN IF toks[i].v # "{" THEN ParseFail
                 ELSE IF IsPunct(i + 1, "}")
                 THEN [ok |-> TRUE, val |-> PyDict(<<>>, <<>>), next |-> i + 2]
                 ELSE ParseMembers(i + 1, <<>>, <<>>)
            ELSE [ok |-> TRUE, val |-> [t |-> toks[i].k, v |-> toks[i].v], next |-> i + 1]
        ParseMembers(i, keys, f) ==
            IF ~(i <= Len(toks) /\ toks[i].k = "str" /\ IsPunct(i + 1, ":")) THEN ParseFail
            ELSE LET r == ParseValue(i + 2)
                     key == toks[i].v
                     keys2 == IF \E n \in 1..Len(keys) : keys[n] = key THEN keys
                              ELSE Append(keys, key)
                     f2 == [k \in {keys2[n] : n \in 1..Len(keys2)} |->
                               IF k = key THEN r.val ELSE f[k]]
                 IN  IF ~r.ok THEN ParseFail
                     ELSE IF IsPunct(r.next, ",") THEN ParseMembers(r.next + 1, keys2, f2)
                     ELSE IF IsPunct(r.next, "}")
                     THEN [ok |-> TRUE, val |-> PyDict(keys2, f2), next |-> r.next + 1]
                     ELSE ParseFail
        r == ParseValue(1)
        d == r.val.v
    IN  IF ~r.ok \/ r.next # Len(toks) + 1
        THEN [error |-> "JSONDecodeError", version |-> "missing", type |-> "missing",
              content |-> "missing", value |-> NoValue]
        ELSE [error |-> "none",
              version |-> IF "version" \in DOMAIN d THEN d["version"].v ELSE "missing",
              type |-> IF "type" \in DOMAIN d THEN d["type"].v ELSE "missing",
              content |-> IF "content" \notin DOMAIN d THEN "missing"
                          ELSE IF d["content"].t = "dict" THEN "dict" ELSE "string",
              value |-> r.val]

\* format_message_body: the readable header (sender, recipient, type and
\* timestamp) followed by the JSON text.
ReadableHeader(m) ==
    <<"From: ">> \o m.v["sender"].v \o <<"To: ">> \o m.v["recipient"].v
        \o <<"Type: ", m.v["type"].v, "Time: ">> \o m.v["timestamp"].v
        \o <<"Raw Message Data:">>

\* The body format_message_body returns; json.loads is given the part from
\* the first '{', which is the JSON text unless the header holds a brace.
FormatMessageBody(m) ==
    LET header == ReadableHeader(m)
        json == JsonDumps(BodyMessage(m))
    IN  [text |-> header, brace |-> TRUE, json |-> json,
         loads |-> IF \E i \in 1..Len(header) : header[i] = "{"
                   THEN [error |-> "JSONDecodeError", version |-> "missing",
                         type |-> "missing", content |-> "missing", value |-> NoValue]
                   ELSE JsonLoads(json)]

NotBuilt == [result |-> "none", type |-> "none", message |-> NoValue]

CodecInit ==
    codec = [op |-> "none", subject |-> <<>>, body |-> NoBody, parsed |-> NotParsed,
             persisted |-> FALSE, delivered |-> FALSE, built |-> NotBuilt]

\* format_email_subject, as create_email_message calls it for an envelope.
FormatSubject ==
    /\ \E t \in SubjectTypes, ts \in Timestamps, id \in MessageIds :
        codec' = [op |-> "format_email_subject", subject |-> FormatEmailSubject(t, ts, id),
                  body |-> NoBody, parsed |-> NotParsed, persisted |-> FALSE,
                  delivered |-> FALSE, built |-> NotBuilt]
    /\ UNCHANGED <<emailConn, call, stale, folder, thread, manager, sendVars, watchVars>>

\* _fetch_email after a FETCH that returned OK: the subject gate, the body,
\* parse_message_body, then _save_received_message and the callback.
FetchEmail ==
    /\ \E line \in FetchSubjects, body \in Bodies :
        LET subject == HeaderValue(line)
            gate == IsEchatMessage(subject)
            parsed == IF gate THEN ParseMessageBody(body) ELSE NotParsed
            handled == gate /\ parsed.kind # "none"
        IN  codec' = [op |-> "fetch_email", subject |-> subject, body |-> body,
                      parsed |-> parsed, persisted |-> handled, delivered |-> handled,
                      built |-> NotBuilt]
    /\ UNCHANGED <<emailConn, call, stale, folder, thread, manager, sendVars, watchVars>>

\* _create_base_message, called by a creator or directly; the message id
\* is generate_message_id's "echat_<clock>_<8 hex digits of a uuid>".
CreateMessage ==
    /\ \E sender \in Senders, recipient \in Recipients, req \in Requests,
          clock \in Timestamps :
        LET result == CreateBaseMessage(ValidateEmail(sender), ValidateEmail(recipient),
                                        req.type)
            id == <<"e", "c", "h", "a", "t", "_">> \o clock
                  \o <<"_", "a", "1", "b", "2", "c", "3", "d", "4">>
        IN  codec' = [op |-> "create_message", subject |-> <<>>, body |-> NoBody,
                      parsed |-> NotParsed, persisted |-> FALSE, delivered |-> FALSE,
                      built |-> [result |-> result, type |-> req.type,
                                 message |-> IF result = "message"
                                             THEN BaseMessage(sender, recipient, req.type,
                                                              req.content, id, clock)
                                             ELSE NoValue]]
    /\ UNCHANGED <<emailConn, call, stale, folder, thread, manager, sendVars, watchVars>>

\* format_message_body on the message just built.
FormatBody ==
    /\ codec.op = "create_message"
    /\ codec.built.result = "message"
    /\ codec' = [codec EXCEPT !.op = "format_message_body",
                              !.body = FormatMessageBody(codec.built.message)]
    /\ UNCHANGED <<emailConn, call, stale, folder, thread, manager, sendVars, watchVars>>

\* parse_message_body on the body just formatted.
ParseBody ==
    /\ codec.op = "format_message_body"
    /\ codec' = [codec EXCEPT !.op = "parse_message_body",
                              !.parsed = ParseMessageBody(codec.body)]
    /\ UNCHANGED <<emailConn, call, stale, folder, thread, manager, sendVars, watchVars>>

\* ================================================================ stopping
\* The send worker, the poll worker and the IDLE worker as stop_send_thread,
\* stop_polling and stop_idle see them: each thread's position in its loop,
\* its running flag, and whether the server's reply to the read it is blocked
\* in has arrived.  Of the threads of a role the newest one is followed step
\* by step; older ones that a stop has abandoned alive are counted.
Threads == {"send", "poll", "idle"}

\* The timeout, in seconds, of the socket read a thread is blocked in at a position:
\* 0 for a socket without timeout, -1 where the thread is not in a socket read.
\*   smtp           smtplib.SMTP(_SSL)(server, port, timeout=self.timeout)
\*   imap, check    imaplib.IMAP4(_SSL)(server, port), and settimeout(None) at
\*                  the end of every _idle_listen
\*   idle_start     settimeout(5) before the answer to IDLE is read
\*   listen, done, done_notified   settimeout(28 * 60)
SocketTimeout(at) ==
    CASE at = "smtp" -> 30
      [] at \in {"imap", "check"} -> 0
      [] at = "idle_start" -> 5
      [] at \in {"listen", "done", "done_notified"} -> 28 * 60
      [] OTHER -> -1

\* start_send_thread, start_polling, start_idle: nothing if the flag is set;
\* otherwise set the flag and start a new thread.  After a stop the earliest
\* start is that of restart_email_services, which follows the join (5 s, for
\* the poll worker 10 s) and sleep(1): the stopped thread is still alive then
\* if it is in a read without timeout or with a longer one, or the IDLE
\* worker in its sleep(10) / sleep(30).
RequestStart(w) ==
    LET t == thread[w]
        alive == t.pc \notin {"none", "exited"}
        wait == (IF w = "poll" THEN 10 ELSE 5) + 1
        outlasts == \/ SocketTimeout(t.pc) = 0
                    \/ SocketTimeout(t.pc) > wait
                    \/ w = "idle" /\ t.pc = "backoff"
    IN  /\ ~t.running
        /\ alive => (outlasts /\ t.old < MaxAbandoned)
        /\ thread' = [thread EXCEPT ![w] =
                          [pc |-> "test", running |-> TRUE, requested |-> FALSE,
                           reply |-> FALSE, old |-> IF alive THEN t.old + 1 ELSE t.old]]
        /\ UNCHANGED <<emailConn, call, stale, codec, folder, manager, sendVars, watchVars>>

\* An abandoned thread comes to its loop test and finds the flag cleared.
AbandonedExit(w) ==
    /\ thread[w].old > 0
    /\ ~thread[w].running
    /\ thread' = [thread EXCEPT ![w].old = @ - 1]
    /\ UNCHANGED <<emailConn, call, stale, codec, folder, manager, sendVars, watchVars>>

\* stop_send_thread, stop_polling, stop_idle: clear the flag and join with a
\* timeout (5, 10, 5 seconds), after which the caller goes on.  stop_idle
\* also writes DONE to self.imap_connection's socket if there is one; the
\* server's answer to it reaches the IDLE worker's read when that socket is
\* the one the worker reads from.
RequestStop(w) ==
    /\ thread[w].running
    /\ \E answered \in BOOLEAN :
        thread' = [thread EXCEPT ![w] =
                      [@ EXCEPT !.running = FALSE, !.requested = TRUE,
                                !.reply = IF w = "idle" /\ answered THEN TRUE ELSE @]]
    /\ UNCHANGED <<emailConn, call, stale, codec, folder, manager, sendVars, watchVars>>

\* The server's reply to the command a thread is waiting on arrives.
ServerReplies(w) ==
    /\ SocketTimeout(thread[w].pc) >= 0
    /\ ~thread[w].reply
    /\ thread' = [thread EXCEPT ![w].reply = TRUE]
    /\ UNCHANGED <<emailConn, call, stale, codec, folder, manager, sendVars, watchVars>>

\* One step of _send_worker, _polling_worker or _idle_worker (with
\* _idle_listen).  A socket read returns when the reply has arrived or when
\* the socket's timeout expires; a read on a socket without timeout returns
\* only on a reply.
\*   test         the loop test on the running flag
\*   get          send_queue.get(timeout=1): a message, or queue.Empty
\*   smtp         send_message_sync: sent or dropped, or re-enqueued, sleep(5)
\*   imap         poll: check_new_messages, then the interval sleep (an
\*                exception: sleep(5)); IDLE: is_alive / connect_imap / folder
\*                listing / select, then IDLE (a failure: sleep 10 or 30)
\*   idle_start   the answer to IDLE: "+ idling", or _idle_listen returns False
\*   listen_test  "while self.idle_running"; when false, DONE is written
\*   listen       recv: a notification (DONE is written), other data (return
\*                False), nothing (next pass); on socket.timeout DONE is written
\*   done, done_notified   recv of the answer to DONE
\*   check        check_new_messages after a notification
\*   sleep, backoff   time.sleep / the interval loop watching the flag
WorkerRun(w) ==
    LET t == thread[w]
        next == CASE t.pc = "test" ->
                       IF ~t.running THEN {"exited"}
                       ELSE IF w = "send" THEN {"get"} ELSE {"imap"}
                  [] t.pc = "get" -> {"smtp", "test"}
                  [] t.pc = "smtp" -> {"test", "backoff"}
                  [] t.pc = "imap" ->
                       IF w = "poll" THEN {"sleep", "backoff"} ELSE {"idle_start", "backoff"}
                  [] t.pc = "idle_start" ->
                       IF t.reply THEN {"listen_test", "sleep"} ELSE {"sleep"}
                  [] t.pc = "listen_test" -> IF t.running THEN {"listen"} ELSE {"done"}
                  [] t.pc = "listen" ->
                       IF t.reply THEN {"done_notified", "sleep", "listen_test"} ELSE {"done"}
                  [] t.pc = "done_notified" -> IF t.reply THEN {"check"} ELSE {"done"}
                  [] OTHER -> IF t.pc \in {"done", "check", "sleep"} THEN {"sleep", "test"} \ {t.pc}
                              ELSE {"test"}
    IN  /\ t.pc \notin {"none", "exited"}
        /\ SocketTimeout(t.pc) >= 0 => (t.reply \/ SocketTimeout(t.pc) > 0)
        /\ \E to \in next :
             thread' = [thread EXCEPT ![w] =
                           [@ EXCEPT !.pc = to,
                                     !.reply = IF SocketTimeout(t.pc) >= 0 THEN FALSE ELSE @]]
        /\ UNCHANGED <<emailConn, call, stale, codec, folder, manager, sendVars, watchVars>>

\* ============================================================ configuration
\* DataValidator.validate_port: int(port) between 1 and 65535.
ValidatePortAny(port) == TRUE
ValidatePort(port) == 1 <= port /\ port <= 65535

\* _validate_email_config: every required field present and truthy (a port
\* 0 and an empty string are not), both ports valid, the user name a valid
\* address.  A configuration is a function from the fields it has.
ValidateEmailConfig(config) ==
    /\ \A field \in {"smtp_server", "imap_server", "username", "password"} :
           field \in DOMAIN config /\ config[field] # <<>>
    /\ \A field \in {"smtp_port", "imap_port"} :
           field \in DOMAIN config /\ config[field] # 0
    /\ ValidatePort(config.smtp_port)
    /\ ValidatePort(config.imap_port)
    /\ ValidateEmail(config.username)

\* update_config: False for a configuration that fails the validation;
\* otherwise set_email_config with the six fields and use_ssl (inbox_folder
\* takes its default ''), then disconnect_all, which disconnects and drops
\* both connection objects.  The configurations handed over: a complete one,
\* or one with a single field absent, empty (0 for a port), or odd (a port
\* above 65535 or negative, a user name that is no address, another text).
UpdateConfig ==
    \E smtp_port \in {465, 587},
       field \in {"smtp_server", "smtp_port", "imap_server", "imap_port", "username",
                  "password"},
       fault \in {"none", "absent", "empty", "odd", "negative"} :
        LET complete == [smtp_server |-> <<"s", ".", "x", ".", "i", "o">>,
                         smtp_port |-> smtp_port,
                         imap_server |-> <<"i", ".", "x", ".", "i", "o">>,
                         imap_port |-> 993,
                         username |-> <<"m", "e", "@", "x", ".", "i", "o">>,
                         password |-> <<"p", "w">>]
            isPort == field \in {"smtp_port", "imap_port"}
            value == IF isPort
                     THEN (IF fault = "empty" THEN 0 ELSE IF fault = "odd" THEN 65536 ELSE -1)
                     ELSE (IF fault = "empty" THEN <<>> ELSE <<"m", "e", "@", "x">>)
            config == IF fault = "none" THEN complete
                      ELSE IF fault = "absent"
                      THEN [f \in DOMAIN complete \ {field} |-> complete[f]]
                      ELSE [complete EXCEPT ![field] = value]
        IN  /\ fault = "negative" => isPort
            /\ manager' =
                 IF ~ValidateEmailConfig(config)
                 THEN [manager EXCEPT !.call = [config |-> config, validations |-> 1,
                                                returned |-> FALSE]]
                 ELSE [manager EXCEPT
                          !.config = [smtp_server |-> config.smtp_server,
                                      smtp_port |-> config.smtp_port,
                                      imap_server |-> config.imap_server,
                                      imap_port |-> config.imap_port,
                                      username |-> config.username,
                                      password |-> config.password,
                                      use_ssl |-> TRUE,
                                      inbox_folder |-> <<>>],
                          !.smtp_connection = NoConnection,
                          !.imap_connection = NoConnection,
                          !.call = [config |-> config, validations |-> 1,
                                    returned |-> TRUE]]
            /\ UNCHANGED <<emailConn, call, stale, codec, folder, thread, sendVars, watchVars>>

\* EmailManager.__init__ with the configuration config_manager has loaded
\* (its defaults, with the stored user name and password): no connection
\* objects, the connection lock free, no thread at it; no update_config and
\* no change of a connection made yet.
LoadedManager(username, password) ==
    [config |-> [smtp_server |-> <<>>, smtp_port |-> 587,
                 imap_server |-> <<>>, imap_port |-> 993,
                 username |-> username, password |-> password,
                 use_ssl |-> TRUE, inbox_folder |-> <<>>],
     smtp_connection |-> NoConnection,
     imap_connection |-> NoConnection,
     lock |-> "none",
     want |-> {},
     mutation |-> [by |-> "none", locked |-> FALSE],
     call |-> [config |-> <<>>, validations |-> 0, returned |-> FALSE]]

\* connect_smtp (the send worker) / connect_imap (the poll and the IDLE
\* worker) up to the call of connect(): "with self.connection_lock" waits
\* while another thread holds the lock; with the lock, False without a
\* stored user name and password, otherwise the old object is disconnected
\* and a new one takes its place.
ManagerConnectBegin(w) ==
    LET which == IF w = "send" THEN "smtp_connection" ELSE "imap_connection"
    IN  /\ manager.lock # w
        /\ manager' =
             IF manager.lock # "none"
             THEN [manager EXCEPT !.want = @ \cup {w}]
             ELSE IF manager.config.username = <<>> \/ manager.config.password = <<>>
             THEN [manager EXCEPT !.want = @ \ {w}]
             ELSE [manager EXCEPT !.lock = w, !.want = @ \ {w},
                                  ![which] = FreshObject,
                                  !.mutation = [by |-> w, locked |-> TRUE]]
        /\ UNCHANGED <<emailConn, call, stale, codec, folder, thread, sendVars, watchVars>>

\* connect_smtp / connect_imap: connect() returns, the lock is released.
ManagerConnectEnd(w) ==
    LET which == IF w = "send" THEN "smtp_connection" ELSE "imap_connection"
    IN  /\ manager.lock = w
        /\ \E outcome \in ConnectOutcomes :
             manager' = [manager EXCEPT ![which] = ConnectResult(FreshObject, outcome),
                                        !.lock = "none",
                                        !.mutation = [by |-> w, locked |-> TRUE]]
        /\ UNCHANGED <<emailConn, call, stale, codec, folder, thread, sendVars, watchVars>>

\* send_message_sync's except branch: is_connected = False, connection =
\* None on self.smtp_connection; no lock is taken.
ManagerSendFailure ==
    /\ manager.lock # "send" /\ "send" \notin manager.want
    /\ manager.smtp_connection.obj
    /\ manager' = [manager EXCEPT !.smtp_connection = ResetAfterSendFailure(@),
                                  !.mutation = [by |-> "send",
                                                locked |-> manager.lock = "send"]]
    /\ UNCHANGED <<emailConn, call, stale, codec, folder, thread, sendVars, watchVars>>

\* is_alive() by a worker on its connection (send_message_sync,
\* check_new_messages, _idle_worker): a raising probe clears is_connected;
\* no lock is taken.
ManagerIsAlive(w) ==
    LET which == IF w = "send" THEN "smtp_connection" ELSE "imap_connection"
    IN  /\ manager.lock # w /\ w \notin manager.want
        /\ manager[which].obj
        /\ \E noopOk \in BOOLEAN :
             /\ AfterIsAlive(manager[which], noopOk) # manager[which]
             /\ manager' = [manager EXCEPT ![which] = AfterIsAlive(@, noopOk),
                                           !.mutation = [by |-> w,
                                                         locked |-> manager.lock = w]]
        /\ UNCHANGED <<emailConn, call, stale, codec, folder, thread, sendVars, watchVars>>

\* connect_smtp / connect_imap: False without a stored user name and
\* password; otherwise the old object is replaced by a new one that connects.
ManagerConnect ==
    /\ manager.config.username # <<>> /\ manager.config.password # <<>>
    /\ \E which \in {"smtp_connection", "imap_connection"}, outcome \in ConnectOutcomes :
        manager' = [manager EXCEPT ![which] = ConnectNew(outcome)]
    /\ UNCHANGED <<emailConn, call, stale, codec, folder, thread, sendVars, watchVars>>

UnitInit ==
    /\ ConnInit
    /\ CodecInit
    /\ folder = [op |-> "none", arg |-> <<>>, listing |-> <<>>, custom |-> <<>>,
                 result |-> <<>>]
    /\ thread = [w \in Threads |-> [pc |-> "none", running |-> FALSE,
                                     requested |-> FALSE, reply |-> FALSE, old |-> 0]]

\* The default configuration: polling_mode 'auto'.
Init ==
    SendInit /\ WatchInit /\ UnitInit /\ manager = LoadedManager(<<>>, <<>>) /\ polling_mode = "auto" /\ inboxCap = MaxWatchMail

\* The inbox watcher.
Spec == Init /\ [][WatchNext]_vars

\* The watcher is not started while the send pipeline is observed.
InitSend ==
    /\ SendInit /\ WatchInit /\ UnitInit /\ manager = LoadedManager(<<>>, <<>>)
    /\ ~idle_enabled /\ polling_mode = "auto" /\ inboxCap = MaxWatchMail

\* The send pipeline.
SendSpec == InitSend /\ [][SendNext]_vars

\* ---- the poll worker alone (IDLE disabled in the configuration)

PollStep ==
    \/ PollLoop
    \/ CheckConnectBegin("poll")
    \/ CheckConnectEnd("poll")
    \/ CheckFindFolder("poll")
    \/ CheckSelect("poll")
    \/ CheckSearch("poll")
    \/ CheckFetch("poll")

PollNext ==
    \/ TestIdleSupport
    \/ StartPolling
    \/ StopPolling
    \/ StopIdle
    \/ PollStep
    \/ MailArrives
    \/ ImapIdleTimePasses
    \/ LinkLost

InitPoll ==
    /\ SendInit
    /\ WatchInit
    /\ UnitInit
    /\ manager = LoadedManager(<<>>, <<>>)
    /\ ~idle_enabled
    /\ polling_mode \in {"auto", "manual"}
    /\ inboxCap = MaxMail

PollSpec == InitPoll /\ [][PollNext]_vars

InitPollFair ==
    /\ SendInit
    /\ WatchInit
    /\ UnitInit
    /\ manager = LoadedManager(<<>>, <<>>)
    /\ ~idle_enabled
    /\ polling_mode \in {"auto", "manual"}
    /\ inboxCap = MaxWatchMail

\* The poll thread, once started, keeps being scheduled: its sleeps are
\* bounded, the connection lock is held for one connect only, and a failing
\* library call returns or raises.
PollFairSpec == InitPollFair /\ [][PollNext]_vars /\ WF_vars(PollStep)

\* ---- starting and stopping the watcher, the mailbox staying empty

StartNext ==
    \/ TestIdleSupport
    \/ StartPolling
    \/ StopPolling
    \/ StopIdle
    \/ PollLoop
    \/ IdleLoop
    \/ \E w \in Workers : CheckConnectBegin(w)
    \/ \E w \in Workers : CheckConnectEnd(w)
    \/ \E w \in Workers : CheckFindFolder(w)
    \/ \E w \in Workers : CheckSelect(w)
    \/ \E w \in Workers : CheckSearch(w)
    \/ \E w \in Workers : CheckFetch(w)
    \/ IdleConnectBegin
    \/ IdleConnectEnd
    \/ IdleFindFolder
    \/ IdleSelect
    \/ IdleStart
    \/ IdleRecvOther
    \/ IdleRecvEnded
    \/ IdleTimeout
    \/ ImapIdleTimePasses
    \/ LinkLost

InitStart ==
    /\ SendInit
    /\ WatchInit
    /\ UnitInit
    /\ manager = LoadedManager(<<>>, <<>>)
    /\ polling_mode \in {"auto", "manual"}
    /\ inboxCap = 0

StartSpec == InitStart /\ [][StartNext]_vars

\* One EmailConnection instance under any order of calls (the instance is
\* reachable from several threads).
ConnSpec == InitSend /\ [][ConnCreate \/ ConnConnect \/ ConnIsAlive \/ ConnUpdateLastUsed
                          \/ ConnDisconnect \/ ConnSendFailure \/ ConnTimePasses]_vars

\* The send pipeline with a worker thread that keeps being scheduled: outside
\* the queue wait (at most 1 s), the socket waits (30 s) and sleep(5) the
\* worker does not block.
SendFairSpec ==
    /\ InitSend
    /\ [][SendNext]_vars
    /\ WF_vars(SendWorkerGet) /\ WF_vars(SyncAttempt) /\ WF_vars(SendWorkerResult)

\* The message codec on bounded inputs.
CodecSpec == InitSend /\ [][FormatSubject \/ FetchEmail]_vars

\* Folder names and the choice of the inbox folder.
FolderSpec == InitSend /\ [][EncodeName \/ DecodeName \/ DecodeEncoded \/ FindInbox]_vars

\* An envelope is built, formatted as a mail body and decoded again.
EnvelopeSpec == InitSend /\ [][CreateMessage \/ FormatBody \/ ParseBody]_vars

\* The stored account the worker threads connect with.
InitLock ==
    /\ SendInit /\ WatchInit /\ UnitInit
    /\ manager = LoadedManager(<<"m", "e", "@", "x", ".", "i", "o">>, <<"p", "w">>)
    /\ ~idle_enabled /\ polling_mode = "auto" /\ inboxCap = MaxWatchMail

\* The three workers at the manager's two connections and its lock.
LockSpec ==
    InitLock /\ [][\E w \in Threads : \/ ManagerConnectBegin(w)
                                       \/ ManagerConnectEnd(w)
                                       \/ ManagerSendFailure
                                       \/ ManagerIsAlive(w)]_vars

\* update_config between connection attempts.
ConfigSpec == InitSend /\ [][UpdateConfig \/ ManagerConnect]_vars

\* The three worker threads and their stop requests.  A thread that can take
\* a step takes it: a sleep ends, a queue wait ends after its second, a read
\* on a socket with a timeout returns.  Nothing obliges the server to reply.
StopFairSpec ==
    /\ InitSend
    /\ [][\E w \in Threads : \/ RequestStart(w)
                             \/ RequestStop(w)
                             \/ ServerReplies(w)
                             \/ AbandonedExit(w)
                             \/ WorkerRun(w)]_vars
    /\ \A w \in Threads : WF_vars(WorkerRun(w))

\* ================================================================== claims

\* C1: within one watcher run the message-received callback is invoked at
\* most once per mailbox message id, whatever the interleaving of the two
\* workers' check_new_messages.
C1_CallbackAtMostOncePerId ==
    \A m \in Mail : delivered[m] <= 1

\* Number of successful transmissions of envelope i.
TxCount(i) == Cardinality({k \in 1..Len(txLog) : txLog[k] = i})

\* C2 (as stated): envelopes are transmitted in enqueue order, also when a
\* transmission fails and is retried: txLog is increasing in the ids.
C2_TransmitInEnqueueOrder ==
    \A i, j \in 1..Len(txLog) : i < j => txLog[i] < txLog[j]

\* C2 (amended): the worker dequeues envelopes for their first transmission
\* attempt in enqueue order (the k-th first dequeue is envelope k).
C2_FirstDequeueInEnqueueOrder ==
    \A k \in 1..Len(firstDeq) : firstDeq[k] = k

\* C2 witness: an envelope failed, was re-enqueued behind a later one, and the
\* later one was transmitted first.
C2_Witness ==
    \E i, j \in 1..Len(txLog) : i < j /\ txLog[i] > txLog[j] /\ attempts[txLog[j]] >= 2

\* C3: no task is attempted at queue level more than 3 times, and a task
\* dropped after exhausting its retries has been reported through the error
\* callback.
C3_DroppedAfterThreeAndReported ==
    \A i \in Ids :
        /\ attempts[i] <= 3
        /\ leftWith[i] >= MaxQueueRetries => errorCb >= 1

\* C4: a task never leaves the pipeline untransmitted while its retry
\* counter is below the maximum.
C4_NeverLostBelowMax ==
    \A i \in Ids : leftWith[i] = -1 \/ leftWith[i] >= MaxQueueRetries

\* C5: add_message(is_sent=True) is called exactly once per successfully
\* transmitted envelope and never for a failed attempt; an envelope is
\* transmitted at most once and send_message_sync reports success exactly
\* when it transmitted.
C5_PersistOncePerTransmitted ==
    \A i \in Ids :
        /\ persisted[i] = TxCount(i)
        /\ TxCount(i) <= 1
        /\ (sendPc = "result" /\ message.id = i) => (success <=> TxCount(i) = 1)

\* C5 witness: two attempts of the transmit call raised, the third
\* succeeded, and the envelope was persisted once.
C5_Witness ==
    /\ sendPc = "result"
    /\ success
    /\ retry_count = 2
    /\ persisted[message.id] = 1

\* C6: the poll worker never issues a command on, disconnects or replaces the
\* IMAP connection on which the IDLE worker is idling.
C6_PollNeverTouchesIdlingConnection ==
    ~pollOnIdling

\* C7: select, search, fetch and IDLE are only issued by a worker that has
\* seen is_alive() true or a successful reconnect on the same connection object.
C7_CommandsOnlyOnVerifiedConnection ==
    ~cmdUnverified

\* C8: after a long-poll ended by the receive timeout and DONE, the IDLE
\* worker issues IDLE again without reconnecting the session in between.
C8_NoReconnectAfterIdleTimeout ==
    ~reconnAfterTimeout

\* C9: stop_idle, run while the IDLE worker is in the long-poll, writes DONE
\* to the connection the worker idles on, and once it has returned and the
\* worker has exited no connection is left in the IDLE state.
C9_StopSendsDoneAndLeavesIdle ==
    /\ stopInListen => stopDoneOk
    /\ (stopInListen /\ mainPc = "ready" /\ pc["idle"] = "stopped")
          => (sess # "idle" /\ orphan # "idle")

\* C10: a notification received while idling is followed by DONE and by
\* check_new_messages before the IDLE worker issues the next IDLE command.
C10_NotificationCheckedBeforeNextIdle ==
    notifPhase # "skipped"

\* C11: the IDLE worker issues IDLE only after a successful select on the
\* session it writes to: the IDLE command never goes to a newly connected
\* session (logged in, no folder selected).
C11_IdleOnlyOnSelectedSession ==
    [][(pc["idle"] = "i_idle" /\ pc'["idle"] # "i_idle" /\ HandlePresent)
         => sess # "auth"]_vars

\* C12: no failure of a poll cycle ends the poll worker: while polling is not
\* stopped the worker exists, and a cycle that gave up at a step (reconnect,
\* folder resolution, select, search) is followed by the start of another
\* cycle unless polling is stopped first.
C12_FailedCycleFollowedByNext ==
    /\ [](polling_running => pc["poll"] # "stopped")
    /\ ((pollFailed /\ polling_running)
            ~> (pc["poll"] \in {"find", "connect"} \/ ~polling_running))

\* A cycle gave up and the worker is back at the head of its loop, running.
C12_Witness == pollFailed /\ polling_running /\ pc["poll"] = "loop"

\* C13: a start_polling() that starts the watcher in auto mode leaves, with
\* IDLE enabled and found supported, both workers running and the poll
\* interval at 900 s; otherwise the poll worker alone at 30 s, no IDLE worker.
C13_AutoModeStart ==
    [][(~polling_running /\ polling_running' /\ polling_mode = "auto") =>
         IF idle_enabled /\ idle_supported = "true"
         THEN /\ polling_interval' = BackupInterval
              /\ idle_running' /\ pc'["idle"] # "stopped"
              /\ pc'["poll"] # "stopped"
         ELSE /\ polling_interval' = FastInterval
              /\ ~idle_running' /\ pc'["idle"] = "stopped"
              /\ pc'["poll"] # "stopped"]_vars

\* Started in auto mode with IDLE: both workers exist, backup interval.
C13_Witness ==
    /\ polling_mode = "auto" /\ polling_running /\ idle_running
    /\ pc["idle"] # "stopped" /\ pc["poll"] # "stopped"
    /\ polling_interval = BackupInterval

\* C14: is_alive() returns a boolean and never raises: false without a handle
\* or when not marked connected; false and no probe when the idle time is
\* over 10 minutes; otherwise true exactly when the no-op probe succeeded.
C14_IsAliveResult ==
    call.op = "is_alive" =>
        /\ call.result \in {"true", "false"}
        /\ (~call.before.connection \/ ~call.before.is_connected) => call.result = "false"
        /\ (call.before.connection /\ call.before.is_connected
                /\ call.before.last_used = "old")
             => (call.result = "false" /\ call.probe = "not_issued")
        /\ call.probe # "not_issued" => (call.result = "true" <=> call.probe = "ok")

\* C15: once is_alive() has seen the idle timeout or a raising probe, the
\* instance is marked not connected and is not reported alive until a
\* connect() succeeds on it.
C15_StaleUntilConnect ==
    stale => /\ ~emailConn.is_connected
             /\ (call.op = "is_alive" => call.result # "true")

\* C16: disconnect() on an instance that holds a handle never raises and
\* leaves no handle, not connected, last-used cleared, whether quit
\* succeeded, only close succeeded, or neither.
C16_DisconnectClears ==
    (call.op = "disconnect" /\ call.before.connection) =>
        /\ call.result # "raised"
        /\ ~emailConn.connection
        /\ ~emailConn.is_connected
        /\ emailConn.last_used = "none"

\* disconnect() ran on a connected instance and both quit and close failed.
C16_Witness ==
    /\ call.op = "disconnect" /\ call.result = "neither"
    /\ call.before.connection /\ call.before.is_connected

\* C17: in the fetch loop of check_new_messages every id of the search is
\* gone through: whatever _fetch_email does with one message, the loop goes
\* on with the remaining ids and the worker stays in it.
C17_FetchLoopGoesOn ==
    [][\A w \in Workers :
         (pc[w] = "fetch" /\ ids[w] # {}) =>
             /\ pc'[w] = "fetch"
             /\ ids'[w] \in {ids[w], ids[w] \ {MinOf(ids[w])}}]_vars

\* In one fetch loop of the poll worker message 1 failed and stays
\* undelivered, message 2 was delivered after it.
C17_Witness ==
    /\ pc["poll"] = "fetch" /\ ids["poll"] = {} /\ fetchFailed["poll"]
    /\ mail[1] = "unseen" /\ delivered[1] = 0
    /\ mail[2] = "seen" /\ delivered[2] = 1

\* C18: a fetched message whose subject does not start with "[E-Chat]" is
\* not parsed, persisted or delivered; every subject format_email_subject
\* produces passes is_echat_message.
C18_SubjectGate ==
    /\ (codec.op = "fetch_email"
           /\ ~(Len(codec.subject) >= Len(SUBJECT_PREFIX)
                  /\ SubSeq(codec.subject, 1, Len(SUBJECT_PREFIX)) = SUBJECT_PREFIX))
         => (codec.parsed.kind = "not_parsed" /\ ~codec.persisted /\ ~codec.delivered)
    /\ codec.op = "format_email_subject" => IsEchatMessage(HeaderValue(codec.subject))

\* A reply ("Re: [E-Chat]") carrying a valid envelope was fetched.
C18_Witness ==
    /\ codec.op = "fetch_email"
    /\ codec.subject = <<"R", "e", ":", " ">> \o SUBJECT_PREFIX
    /\ codec.body.brace /\ ValidateMessageFormat(codec.body.loads)

\* C19: parse_message_body gives, for every body, the validated envelope of
\* the body's JSON or the fallback message (type text, text the trimmed
\* body, fallback marker set), never an empty result.
C19_ParseNeverEmpty ==
    (codec.op = "fetch_email" /\ codec.parsed.kind # "not_parsed") =>
        \/ /\ codec.parsed.kind = "envelope"
           /\ codec.body.brace /\ codec.body.loads.error = "none"
           /\ ValidateMessageFormat(codec.body.loads)
        \/ /\ codec.parsed.kind = "fallback"
           /\ codec.parsed.type = "text"
           /\ codec.parsed.text = Strip(codec.body.text)
           /\ codec.parsed.fallback

\* C20: send_message_async with a content longer than max_message_length
\* returns False; at or below the limit (and with valid addresses) it
\* returns True.
C20_OverlongRejected ==
    asyncCall.len > 0 =>
        (asyncCall.returned
            <=> (asyncCall.len <= max_message_length
                 /\ asyncCall.senderOk /\ asyncCall.recipientOk))

\* C21: a send_message_async whose sender or recipient address is invalid
\* builds no envelope, returns False, leaves the send queue as it was and
\* does not start the send worker.
C21_InvalidAddressRejected ==
    [][(asyncCall' # asyncCall /\ ~(asyncCall'.senderOk /\ asyncCall'.recipientOk))
         => /\ ~asyncCall'.built
            /\ ~asyncCall'.returned
            /\ send_queue' = send_queue
            /\ enqueued' = enqueued
            /\ send_running' = send_running
            /\ sendPc' = sendPc]_vars

\* A call with an invalid recipient was made while the worker was stopped
\* and an envelope was waiting in the queue.
C21_Witness ==
    /\ asyncCall.len > 0
    /\ asyncCall.senderOk /\ ~asyncCall.recipientOk
    /\ ~asyncCall.returned
    /\ send_queue # <<>>
    /\ ~send_running

\* C22: an envelope is built only with a kind in {text, file, status,
\* system}, and a decoded body is a valid envelope only if its kind is in
\* that set.
C22_KindsClosed ==
    /\ codec.built.result = "message"
           => codec.built.type \in {"text", "file", "status", "system"}
    /\ codec.parsed.kind = "envelope"
           => codec.parsed.type \in {"text", "file", "status", "system"}

C24_Utf7RoundTrip ==
    /\ folder.op = "decode_encoded" => folder.result = folder.arg
    /\ (folder.op = "decode" /\ \A i \in 1..Len(folder.arg) : folder.arg[i] < 128)
           => folder.result = folder.arg

\* C25: _find_inbox_folder returns the configured folder if it is listed,
\* otherwise INBOX if listed, otherwise the first listed folder whose decoded
\* name is an inbox synonym in any case, otherwise the first whose decoded
\* name contains "inbox", otherwise the first listed folder; a non-empty
\* listing yields one of its entries.
C25_FindInboxOrder ==
    folder.op = "find_inbox_folder" =>
        LET l == folder.listing
            custom == SelectSeq(folder.custom, LAMBDA c : c # 32)
            Lower(s) == [i \in 1..Len(s) |-> IF s[i] \in 65..90 THEN s[i] + 32 ELSE s[i]]
            Name(f) == Lower(DecodeImapUtf7(f))
            Synonym(f) == Name(f) \in {<<25910, 20214, 31665>>, <<105, 110, 98, 111, 120>>,
                                       <<37038, 31665>>}
            HasInbox(f) == \E i \in 0..(Len(Name(f)) - 5) :
                               SubSeq(Name(f), i + 1, i + 5) = <<105, 110, 98, 111, 120>>
            FirstFolder(P(_)) == l[CHOOSE i \in 1..Len(l) :
                               P(l[i]) /\ \A j \in 1..(i - 1) : ~P(l[j])]
            AnyFolder(P(_)) == \E i \in 1..Len(l) : P(l[i])
            Is(name) == LET Same(f) == f = name IN AnyFolder(Same)
        IN  /\ l # <<>> => Is(folder.result)
            /\ folder.result =
                  (IF l = <<>> THEN <<>>
                   ELSE IF custom # <<>> /\ Is(custom) THEN custom
                   ELSE IF Is(<<73, 78, 66, 79, 88>>) THEN <<73, 78, 66, 79, 88>>
                   ELSE IF AnyFolder(Synonym) THEN FirstFolder(Synonym)
                   ELSE IF AnyFolder(HasInbox) THEN FirstFolder(HasInbox)
                   ELSE l[1])

\* C26: a send_message_async with a configured sender and valid addresses
\* returns True, leaves the queued envelopes in place and puts exactly one
\* new envelope behind them, whatever the worker is doing at that moment
\* (it takes nothing from the worker), and the send worker is running when
\* it returns, started by the call if it was not.
C26_EnqueueAtTail ==
    [][((asyncCall' # asyncCall \/ enqueued' # enqueued)
          /\ asyncCall'.senderOk /\ asyncCall'.recipientOk)
         => /\ asyncCall'.returned
            /\ Len(send_queue') = Len(send_queue) + 1
            /\ SubSeq(send_queue', 1, Len(send_queue)) = send_queue
            /\ send_queue'[Len(send_queue')] = [id |-> enqueued', retry |-> 0]
            /\ enqueued' = enqueued + 1
            /\ send_running' /\ sendPc' # "stopped"
            /\ (send_running => sendPc' = sendPc)
            /\ message' = message]_vars

\* A second envelope was accepted behind a re-enqueued one; the worker is
\* running and back at its loop.
C26_Witness ==
    /\ asyncCall.returned
    /\ Len(send_queue) = 2
    /\ send_queue[1].retry > 0
    /\ send_queue[2] = [id |-> enqueued, retry |-> 0]
    /\ send_running
    /\ sendPc = "loop"

\* C27: once a stop has been requested for a worker thread, the thread
\* eventually exits, unless the role is started again first; it does not
\* stay blocked for ever.
C27_StoppedWorkersExit ==
    \A w \in Threads :
        [](thread[w].requested => <>(thread[w].pc = "exited" \/ ~thread[w].requested))

\* C28: an IMAP connect that sends the ID command after a successful login
\* returns True and leaves the connection connected, with a handle and a
\* fresh last-use time, whether the command was acknowledged, answered
\* without OK, or raised.
C28_IdNeverFatal ==
    [][(call' # call /\ call'.op = "connect" /\ call'.probe # "not_issued")
         => /\ call'.result = "true"
            /\ emailConn'.connection
            /\ emailConn'.is_connected
            /\ emailConn'.last_used = "fresh"]_vars

\* A connect whose ID exchange raised has returned True.
C28_Witness ==
    /\ call.op = "connect"
    /\ call.probe = "raises"
    /\ call.result = "true"
    /\ emailConn.is_connected

\* C29: an update_config whose configuration lacks a required field (or has
\* it empty or 0), has a port outside 1..65535 or has an invalid user
\* address returns False after one validation and leaves the stored
\* configuration and both connection objects as they were.
C29_InvalidConfigRejected ==
    [][(manager'.call # manager.call
          /\ LET c == manager'.call.config
             IN  \/ \E field \in {"smtp_server", "imap_server", "username", "password"} :
                        field \notin DOMAIN c \/ c[field] = <<>>
                 \/ \E field \in {"smtp_port", "imap_port"} :
                        field \notin DOMAIN c \/ c[field] \notin 1..65535
                 \/ ~ValidateEmail(c.username))
         => /\ ~manager'.call.returned
            /\ manager'.call.validations = 1
            /\ manager'.config = manager.config
            /\ manager'.smtp_connection = manager.smtp_connection
            /\ manager'.imap_connection = manager.imap_connection]_vars

\* A configuration with the port 65536 was refused while a configuration
\* was stored and both connections were up.
C29_Witness ==
    /\ ~manager.call.returned
    /\ DOMAIN manager.call.config = DOMAIN manager.config \ {"use_ssl", "inbox_folder"}
    /\ manager.call.config.smtp_port = 65536
    /\ manager.config.username # <<>>
    /\ manager.smtp_connection.is_connected
    /\ manager.imap_connection.is_connected

\* C30: one call of send_message_sync makes at most two transmission
\* attempts: it is inside its retry loop only before its first attempt or
\* after one failed attempt.
C30_AtMostTwoAttempts ==
    sendPc = "sync" => retry_count + 1 <= 2

\* C31: every change of a connection's handle, connected flag or last-used
\* time is made by a thread that holds the manager's connection lock.
C31_MutationsUnderLock ==
    manager.mutation.by # "none" => manager.mutation.locked

\* C32: the send worker is never waiting for the connection lock while an
\* inbox worker holds it to connect IMAP, and no inbox worker is waiting
\* while the send worker holds it to connect SMTP.
C32_IndependentLocks ==
    /\ ~("send" \in manager.want /\ manager.lock \in {"poll", "idle"})
    /\ ~(manager.lock = "send" /\ manager.want \cap {"poll", "idle"} # {})

\* C33: a poll cycle that gave up is followed by a wait of 5 seconds, not
\* of the polling interval, before the worker's next cycle.
C33_BackoffAfterFailedCycle ==
    (pollFailed /\ polling_running /\ pc["poll"] = "loop")
        => PollWait(CheckNewMessagesRaises) = 5

\* C34: the retry counter of every task in the send queue is between 0 and
\* 3, and a task never enters or stays in the queue with a counter below
\* the one it had before, in the queue or in the worker's hands.
C34_RetryCounterBounded ==
    /\ [](\A k \in 1..Len(send_queue) : send_queue[k].retry \in 0..3)
    /\ [][\A k \in 1..Len(send_queue') :
             LET task == send_queue'[k]
             IN  /\ \A j \in 1..Len(send_queue) :
                        send_queue[j].id = task.id => task.retry >= send_queue[j].retry
                 /\ message.id = task.id => task.retry >= message.retry]_vars

\* A task is back in the queue with the counter 3 behind a new one.
C34_Witness ==
    \E k \in 1..Len(send_queue) : k > 1 /\ send_queue[k].retry = 3

\* C35: of each role, send, poll and IDLE, at most one worker thread is
\* alive at any time.
C35_OneWorkerPerRole ==
    \A w \in Threads :
        (IF thread[w].pc \in {"none", "exited"} THEN 0 ELSE 1) + thread[w].old <= 1

\* C36: stop_idle writes DONE to the socket only while the session of that
\* connection is in the IDLE state: not while the IDLE worker is selecting,
\* searching or fetching, and not after the worker has sent DONE itself.
C36_DoneOnlyInIdle ==
    [][(mainPc = "stopping" /\ mainPc' = "ready" /\ idle_running
           /\ pc["idle"] # "stopped" /\ HandlePresent)
         => sess = "idle"]_vars

\* C37: every IMAP command the IDLE worker issues after _idle_listen has
\* returned (the no-op probe of is_alive, list, select, IDLE, search, fetch)
\* goes to a session whose IDLE has been ended by DONE.
C37_DoneBeforeNextCommand ==
    [][(pc'["idle"] # pc["idle"] /\ idle_running /\ HandlePresent /\ orphan = "none"
          /\ \/ pc["idle"] \in {"i_loop", "check"} /\ ProbeIssued(imap)
             \/ pc["idle"] \in {"i_find", "i_select", "i_idle",
                                "find", "select", "search", "fetch"})
         => sess # "idle"]_vars

\* C38: an operation on a connection object drops the reference to an open
\* handle only in disconnect(), which closes it by quit() or close() first.
C38_HandleClosedBeforeDropped ==
    [][(emailConn.connection /\ ~emailConn'.connection /\ call'.op # "none")
         => call'.op = "disconnect"]_vars

====
